---- MODULE Spec2Model ----
(***************************************************************************)
(* VM-exit dispatch and emulation engine of HyperPlatform (vmm.cpp).       *)
(*                                                                         *)
(* A 64-bit quantity (ULONG_PTR, ULONG64, a VMCS field, an MSR) is a tuple *)
(* of four 16-bit words, most significant first: <<w3, w2, w1, w0>>.       *)
(* All arithmetic on them is modulo 2^64, as in the x64 build.             *)
(***************************************************************************)
EXTENDS Integers, Sequences, FiniteSets, TLC

VARIABLES
    pc,        \* "guest" | "exit" | "returned" | "halted"
    gp_regs,   \* VmmInitialStack::gp_regs, the trapped register file
    vmcs,      \* the current VMCS, field name -> value
    hw,        \* host processor state the handlers touch (MSRs, DRs, CRs, IRQL)
    ctx,       \* GuestContext of the exit in flight (and its verdict)
    stop,      \* the bug check that halted the system, code "" while running
    entry,     \* snapshot taken when the exit is delivered
    prev,      \* the WRMSR exit that an RDMSR exit in flight reads back
    log,       \* privileged operations performed by the handler, in order
    cpus,      \* with several processors: processor number -> its pc, machine, entry
    tlb,       \* with several processors: the cached mappings, [vpid, address]
    call,      \* the arguments of a function called on its own
    history,   \* g_vmmp_next_history_index and g_vmmp_vm_exit_history
    driver     \* the driver: where DriverEntry is and what is initialised

vars == <<pc, gp_regs, vmcs, hw, ctx, stop, entry, prev, log, cpus, tlb, call,
          history, driver>>

----------------------------------------------------------------------------
(* 64-bit values as four 16-bit words *)

\* the radix of the word representation
Radix == 2 ^ 16

\* largest instruction length the exits of the model report (hardware: 15)
MaxInstLen == 3

Zero64 == <<0, 0, 0, 0>>

U64(w3, w2, w1, w0) == <<w3, w2, w1, w0>>

\* a small natural number as a 64-bit value
Nat64(n) == <<0, 0, n \div Radix, n % Radix>>

RECURSIVE AndBits(_, _, _)
AndBits(a, b, n) ==
    IF n = 0 THEN 0
    ELSE (a % 2) * (b % 2) + 2 * AndBits(a \div 2, b \div 2, n - 1)

And16(a, b) == AndBits(a, b, 16)
Or16(a, b) == a + b - And16(a, b)
Not16(a) == (Radix - 1) - a

And64(a, b) == <<And16(a[1], b[1]), And16(a[2], b[2]), And16(a[3], b[3]), And16(a[4], b[4])>>
Or64(a, b) == <<Or16(a[1], b[1]), Or16(a[2], b[2]), Or16(a[3], b[3]), Or16(a[4], b[4])>>
Not64(a) == <<Not16(a[1]), Not16(a[2]), Not16(a[3]), Not16(a[4])>>

\* a + b modulo 2^64
Add64(a, b) ==
    LET s4 == a[4] + b[4]
        s3 == a[3] + b[3] + (s4 \div Radix)
        s2 == a[2] + b[2] + (s3 \div Radix)
        s1 == a[1] + b[1] + (s2 \div Radix)
    IN  <<s1 % Radix, s2 % Radix, s3 % Radix, s4 % Radix>>

\* a - b modulo 2^64
Sub64(a, b) == Add64(a, Add64(Not64(b), Nat64(1)))

\* unsigned a <= b
Le64(a, b) ==
    \/ a[1] < b[1]
    \/ a[1] = b[1] /\ a[2] < b[2]
    \/ a[1] = b[1] /\ a[2] = b[2] /\ a[3] < b[3]
    \/ a[1] = b[1] /\ a[2] = b[2] /\ a[3] = b[3] /\ a[4] <= b[4]

\* static_cast<ULONG>(v), zero-extended back to 64 bits
Low32(v) == <<0, 0, v[3], v[4]>>

\* the upper 32 bits of v, as a 64-bit value (v >> 32)
High32(v) == <<0, 0, v[1], v[2]>>

\* (hi << 32) | lo of two 32-bit values
Join32(hi, lo) == <<hi[3], hi[4], lo[3], lo[4]>>

Pow2(k) == 2 ^ k

\* bit k (0..63) of v
Bit(v, k) == (v[4 - (k \div 16)] \div Pow2(k % 16)) % 2

SetBit(v, k, b) ==
    LET i == 4 - (k \div 16)
        w == v[i]
        cur == (w \div Pow2(k % 16)) % 2
    IN  [v EXCEPT ![i] = w - cur * Pow2(k % 16) + b * Pow2(k % 16)]

----------------------------------------------------------------------------
(* Architectural constants used by vmm.cpp *)

\* VmxExitReason: the basic exit reasons that have a case in VmmpHandleVmExit
VmxExitReason ==
    [kExceptionOrNmi |-> 0, kTripleFault |-> 2, kCpuid |-> 10, kInvd |-> 13,
     kInvlpg |-> 14, kRdtsc |-> 16, kVmcall |-> 18, kVmclear |-> 19,
     kVmlaunch |-> 20, kVmptrld |-> 21, kVmptrst |-> 22, kVmread |-> 23,
     kVmresume |-> 24, kVmwrite |-> 25, kVmoff |-> 26, kVmon |-> 27,
     kCrAccess |-> 28, kDrAccess |-> 29, kIoInstruction |-> 30,
     kMsrRead |-> 31, kMsrWrite |-> 32, kMonitorTrapFlag |-> 37,
     kGdtrOrIdtrAccess |-> 46, kLdtrOrTrAccess |-> 47, kEptViolation |-> 48,
     kEptMisconfig |-> 49, kInvept |-> 50, kRdtscp |-> 51, kInvvpid |-> 53,
     kXsetbv |-> 55]

\* the exit reasons VmmpHandleVmx serves
VmxInstructionReasons ==
    {VmxExitReason.kVmclear, VmxExitReason.kVmlaunch, VmxExitReason.kVmptrld,
     VmxExitReason.kVmptrst, VmxExitReason.kVmread, VmxExitReason.kVmresume,
     VmxExitReason.kVmwrite, VmxExitReason.kVmoff, VmxExitReason.kVmon,
     VmxExitReason.kInvept, VmxExitReason.kInvvpid}

\* Msr: the MSR indices vmm.cpp names
Msr ==
    [kIa32SysenterCs  |-> U64(0, 0, 0, 372),        \* 0x174
     kIa32SysenterEsp |-> U64(0, 0, 0, 373),        \* 0x175
     kIa32SysenterEip |-> U64(0, 0, 0, 374),        \* 0x176
     kIa32Debugctl    |-> U64(0, 0, 0, 473),        \* 0x1D9
     kIa32VmxCr0Fixed0 |-> U64(0, 0, 0, 1158),      \* 0x486
     kIa32VmxCr0Fixed1 |-> U64(0, 0, 0, 1159),      \* 0x487
     kIa32VmxCr4Fixed0 |-> U64(0, 0, 0, 1160),      \* 0x488
     kIa32VmxCr4Fixed1 |-> U64(0, 0, 0, 1161),      \* 0x489
     kIa32FsBase      |-> U64(0, 0, 49152, 256),    \* 0xC0000100
     kIa32GsBase      |-> U64(0, 0, 49152, 257)]    \* 0xC0000101

\* InterruptionType
InterruptionType == [kHardwareException |-> 3, kSoftwareException |-> 6]

\* InterruptionVector
InterruptionVector ==
    [kDebugException |-> 1, kBreakpointException |-> 3,
     kInvalidOpcodeException |-> 6, kGeneralProtectionException |-> 13,
     kPageFaultException |-> 14]

\* bit positions of FlagRegister
FlagBit == [cf |-> 0, pf |-> 2, af |-> 4, zf |-> 6, sf |-> 7, tf |-> 8, df |-> 10, of |-> 11]

\* the names of GpRegisters, in the order VmmpSelectRegister indexes them
RegisterNames ==
    <<"ax", "cx", "dx", "bx", "sp", "bp", "si", "di",
      "r8", "r9", "r10", "r11", "r12", "r13", "r14", "r15">>

\* KIRQL value of DISPATCH_LEVEL
DISPATCH_LEVEL == 2

\* the 32-bit hypercall numbers of the VMCALL protocol
HypercallNumber ==
    [kMinimumHypercallNumber |-> U64(0, 0, 4386, 13056),   \* 0x11223300
     kTerminateVmm           |-> U64(0, 0, 4386, 13056),
     kPingVmm                |-> U64(0, 0, 4386, 13057),
     kGetSharedProcessorData |-> U64(0, 0, 4386, 13058),
     kMaximumHypercallNumber |-> U64(0, 0, 4386, 13058)]

\* addresses the host hands out: the GuestContext on the VMM stack, the
\* ProcessorData of this processor and the SharedProcessorData
HostAddress ==
    [guest_context  |-> U64(65535, 63488, 0, 4096),
     processor_data |-> U64(65535, 63488, 0, 8192),
     shared_data    |-> U64(65535, 63488, 0, 12288),
     ept_data       |-> U64(65535, 63488, 0, 16384)]

----------------------------------------------------------------------------
(* Bit fields *)

RECURSIVE Bits(_, _, _)
\* the n-bit field of v that starts at bit lo
Bits(v, lo, n) ==
    IF n = 0 THEN 0 ELSE Bit(v, lo) + 2 * Bits(v, lo + 1, n - 1)

\* FlagRegister::fields.<name>
Flag(flag_reg, name) == Bit(flag_reg, FlagBit[name]) = 1

----------------------------------------------------------------------------
(* The machine a handler works on: m is the record
   [gp_regs, vmcs, hw, ctx, stop, log]; every handler maps m to m. *)

\* one privileged operation: its kind, the field or code it names, two
\* operands, and the CR3 that was loaded when it was performed
LogOp(m, op, f, v, w) ==
    [m EXCEPT !.log = Append(@, [op |-> op, f |-> f, v |-> v, w |-> w,
                                 cr3 |-> m.hw.cr3])]

\* UtilVmRead / UtilVmRead64: the VMCS is a flat store of 64-bit values
UtilVmRead(m, field) == m.vmcs[field]

\* UtilVmWrite / UtilVmWrite64
UtilVmWrite(m, field, value) ==
    LogOp([m EXCEPT !.vmcs[field] = value], "vmwrite", field, value, Zero64)

\* a VMCS read that the log records (the MSR-backed guest fields)
UtilVmReadLogged(m, field) == LogOp(m, "vmread", field, m.vmcs[field], Zero64)

\* UtilReadMsr / UtilReadMsr64: the value the hardware MSR holds
UtilReadMsr64(m, msr) ==
    IF msr \in DOMAIN m.hw.msr THEN m.hw.msr[msr] ELSE Zero64

\* the read as the log records it
UtilReadMsrLogged(m, msr) == LogOp(m, "rdmsr", "", msr, UtilReadMsr64(m, msr))

\* UtilWriteMsr64
UtilWriteMsr64(m, msr, value) ==
    LogOp(IF msr \in DOMAIN m.hw.msr
          THEN [m EXCEPT !.hw.msr[msr] = value] ELSE m,
          "wrmsr", "", msr, value)

\* HYPERPLATFORM_COMMON_BUG_CHECK: KeBugCheckEx, which never returns
BugCheck(m, code, p1, p2, p3) ==
    LogOp([m EXCEPT !.stop = [code |-> code, p1 |-> p1, p2 |-> p2, p3 |-> p3]],
          "bugcheck", code, p1, p2)

Halted(m) == m.stop.code # ""

\* HYPERPLATFORM_COMMON_DBG_BREAK: breaks into an attached debugger only
DbgBreak(m) == LogOp(m, "dbgbreak", "", Zero64, Zero64)

\* VmEntryInterruptionInformationField::all for a valid event
InterruptionInformation(interruption_type, vector, deliver_error_code) ==
    U64(0, 0, 32768,
        (vector % 256) + 256 * (interruption_type % 8)
                       + (IF deliver_error_code THEN 2048 ELSE 0))

\* the injection that writes the error code whether it is delivered or not
VmmpInjectInterruption_AlwaysErrorCode(m, interruption_type, vector, deliver_error_code, error_code) ==
    UtilVmWrite(
        UtilVmWrite(m, "kVmEntryIntrInfoField",
            U64(0, 0, 32768, vector + 256 * interruption_type
                             + (IF deliver_error_code THEN 2048 ELSE 0))),
        "kVmEntryExceptionErrorCode", error_code)

VmmpInjectInterruption(m, interruption_type, vector, deliver_error_code, error_code) ==
    IF deliver_error_code
    THEN UtilVmWrite(
            UtilVmWrite(m, "kVmEntryIntrInfoField",
                InterruptionInformation(interruption_type, vector, TRUE)),
            "kVmEntryExceptionErrorCode", error_code)
    ELSE UtilVmWrite(m, "kVmEntryIntrInfoField",
            InterruptionInformation(interruption_type, vector, FALSE))

\* the instruction pointer advanced by twice the instruction length
VmmpAdjustGuestInstructionPointer_SkipTwo(m) ==
    LET exit_inst_length == UtilVmRead(m, "kVmExitInstructionLen")
    IN  UtilVmWrite(m, "kGuestRip",
            Add64(Add64(m.ctx.ip, exit_inst_length), exit_inst_length))

\* the trap flag ignored
VmmpInjectSingleStep_Never(m) == m

\* the #DB that a set TF asks for once the instruction is emulated
VmmpInjectSingleStep(m) ==
    IF Flag(m.ctx.flag_reg, "tf")
    THEN UtilVmWrite(
            VmmpInjectInterruption(m, InterruptionType.kHardwareException,
                InterruptionVector.kDebugException, FALSE, Zero64),
            "kVmEntryInstructionLen", UtilVmRead(m, "kVmExitInstructionLen"))
    ELSE m

VmmpAdjustGuestInstructionPointer(m) ==
    VmmpInjectSingleStep(
        UtilVmWrite(m, "kGuestRip",
            Add64(m.ctx.ip, UtilVmRead(m, "kVmExitInstructionLen"))))

\* the advance at the end of a handler that a bug check did not end
VmmpAdvanceUnlessHalted(m) ==
    IF Halted(m) THEN m ELSE VmmpAdjustGuestInstructionPointer(m)

\* one tag for every processor
CurrentProcessorVpid_One(m) == Nat64(1)

\* static_cast<USHORT>(KeGetCurrentProcessorNumberEx(nullptr) + 1)
CurrentProcessorVpid(m) == Nat64((m.hw.processor + 1) % 65536)

\* every guest taken for ring 0
VmmpGetGuestCpl_Ring0(m) == 0

\* VmxRegmentDescriptorAccessRight::fields.dpl of the guest SS
VmmpGetGuestCpl(m) == Bits(UtilVmRead(m, "kGuestSsArBytes"), 5, 2)

VmmpSelectRegister(index) == RegisterNames[index + 1]

\* On x64 a CR3 with the lowest bit set is taken for a user-mode CR3 and the
\* kernel CR3 comes from _KPROCESS::DirectoryTableBase
VmmpGetKernelCr3(m) ==
    LET guest_cr3 == UtilVmRead(m, "kGuestCr3")
    IN  IF Bit(guest_cr3, 0) = 1 THEN m.hw.directory_table_base ELSE guest_cr3

VmmpDumpGuestState(m) == LogOp(m, "dump", "", Zero64, Zero64)

SetRegister(m, name, value) == [m EXCEPT !.gp_regs[name] = value]

\* a store through a pointer into guest virtual memory
WriteMemory(m, address, value) ==
    LogOp(IF address \in DOMAIN m.hw.mem
          THEN [m EXCEPT !.hw.mem[address] = value] ELSE m,
          "memwrite", "", address, value)

\* a load through a pointer into guest virtual memory
ReadMemory(m, address) ==
    IF address \in DOMAIN m.hw.mem THEN m.hw.mem[address] ELSE Zero64

ReadMemoryLogged(m, address) ==
    LogOp(m, "memread", "", address, ReadMemory(m, address))

\* __writecr3
WriteCr3(m, value) == LogOp([m EXCEPT !.hw.cr3 = value], "writecr3", "", value, Zero64)

----------------------------------------------------------------------------
(* Fatal exits *)

VmmpHandleTripleFault(m) ==
    BugCheck(VmmpDumpGuestState(m), "kTripleFaultVmExit",
             HostAddress.guest_context, m.ctx.ip, Zero64)

\* an unexpected-exit stop that leaves the qualification out
VmmpHandleUnexpectedExit_NoQualification(m) ==
    BugCheck(VmmpDumpGuestState(m), "kUnexpectedVmExit",
             HostAddress.guest_context, m.ctx.ip, Zero64)

VmmpHandleUnexpectedExit(m) ==
    BugCheck(VmmpDumpGuestState(m), "kUnexpectedVmExit",
             HostAddress.guest_context, m.ctx.ip,
             UtilVmRead(m, "kExitQualification"))

\* a monitor-trap exit that only dumps the guest state and returns
VmmpHandleMonitorTrap_Resume(m) == VmmpDumpGuestState(m)

VmmpHandleMonitorTrap(m) ==
    BugCheck(VmmpDumpGuestState(m), "kUnexpectedVmExit",
             HostAddress.guest_context, m.ctx.ip, Zero64)

\* EptGetEptPtEntry is the EPT collaborator: it returns a pointer to the
\* entry that maps the address, out of the processor's EPT state
EptGetEptPtEntry(m, ept_data, physical_address) ==
    m.hw.ept_entry[physical_address].address

\* the pointer itself, cast to ULONG_PTR, is the third bug-check argument
VmmpHandleEptMisconfig(m) ==
    LET fault_address == UtilVmRead(m, "kGuestPhysicalAddress")
        ept_pt_entry == EptGetEptPtEntry(m, HostAddress.ept_data, fault_address)
    IN  BugCheck(LogOp(m, "EptGetEptPtEntry", "", HostAddress.ept_data, fault_address),
                 "kEptMisconfigVmExit", fault_address, ept_pt_entry, Zero64)

----------------------------------------------------------------------------
(* Exceptions and NMI *)

\* an exception handler that injects what it was given but leaves CR2 as
\* it is on a page fault and passes no instruction length for #BP
VmmpHandleException_InjectOnly(m) ==
    LET exception == UtilVmRead(m, "kVmExitIntrInfo")
        interruption_type == Bits(exception, 8, 3)
        vector == Bits(exception, 0, 8)
        error_code == Low32(UtilVmRead(m, "kVmExitIntrErrorCode"))
    IN  IF interruption_type = InterruptionType.kHardwareException
        THEN IF vector \in {InterruptionVector.kPageFaultException,
                            InterruptionVector.kGeneralProtectionException}
             THEN VmmpInjectInterruption(m, interruption_type, vector,
                                         TRUE, error_code)
             ELSE BugCheck(m, "kUnspecified", Zero64, Zero64, Zero64)
        ELSE IF interruption_type = InterruptionType.kSoftwareException
        THEN IF vector = InterruptionVector.kBreakpointException
             THEN VmmpInjectInterruption(m, interruption_type, vector,
                                         FALSE, Zero64)
             ELSE BugCheck(m, "kUnspecified", Zero64, Zero64, Zero64)
        ELSE BugCheck(m, "kUnspecified", Zero64, Zero64, Zero64)

VmmpHandleException(m) ==
    LET exception == UtilVmRead(m, "kVmExitIntrInfo")
        interruption_type == Bits(exception, 8, 3)
        vector == Bits(exception, 0, 8)
        error_code == Low32(UtilVmRead(m, "kVmExitIntrErrorCode"))
        fault_address == UtilVmRead(m, "kExitQualification")
    IN  IF interruption_type = InterruptionType.kHardwareException
        THEN IF vector = InterruptionVector.kPageFaultException
             THEN LogOp([VmmpInjectInterruption(m, interruption_type, vector,
                                                TRUE, error_code)
                            EXCEPT !.hw.cr2 = fault_address],
                        "writecr2", "", fault_address, Zero64)
             ELSE IF vector = InterruptionVector.kGeneralProtectionException
             THEN VmmpInjectInterruption(m, interruption_type, vector,
                                         TRUE, error_code)
             ELSE BugCheck(m, "kUnspecified", Zero64, Zero64, Zero64)
        ELSE IF interruption_type = InterruptionType.kSoftwareException
        THEN IF vector = InterruptionVector.kBreakpointException
             THEN UtilVmWrite(
                    VmmpInjectInterruption(m, interruption_type, vector,
                                           FALSE, Zero64),
                    "kVmEntryInstructionLen",
                    UtilVmRead(m, "kVmExitInstructionLen"))
             ELSE BugCheck(m, "kUnspecified", Zero64, Zero64, Zero64)
        ELSE BugCheck(m, "kUnspecified", Zero64, Zero64, Zero64)

----------------------------------------------------------------------------
(* CPUID, RDTSC, RDTSCP, XSETBV, INVD, INVLPG *)

\* __cpuidex on the host: <<eax, ebx, ecx, edx>>, each a 32-bit value, for
\* the leaf and the subleaf
HostCpuid(m, function_id, sub_function_id) ==
    IF <<function_id, sub_function_id>> \in DOMAIN m.hw.cpuid
    THEN m.hw.cpuid[<<function_id, sub_function_id>>]
    ELSE <<Zero64, Zero64, Zero64, Zero64>>

\* CPUID with the host's output handed to the guest as it is
VmmpHandleCpuid_PassThrough(m) ==
    VmmpAdjustGuestInstructionPointer(
        [m EXCEPT !.gp_regs["ax"] = HostCpuid(m, Low32(m.gp_regs["ax"]), Low32(m.gp_regs["cx"]))[1],
                  !.gp_regs["bx"] = HostCpuid(m, Low32(m.gp_regs["ax"]), Low32(m.gp_regs["cx"]))[2],
                  !.gp_regs["cx"] = HostCpuid(m, Low32(m.gp_regs["ax"]), Low32(m.gp_regs["cx"]))[3],
                  !.gp_regs["dx"] = HostCpuid(m, Low32(m.gp_regs["ax"]), Low32(m.gp_regs["cx"]))[4]])

\* CPUID that answers every subleaf with the output of subleaf 0
VmmpHandleCpuid_SubleafZero(m) ==
    VmmpAdjustGuestInstructionPointer(
        [m EXCEPT !.gp_regs["ax"] = HostCpuid(m, Low32(m.gp_regs["ax"]), Zero64)[1],
                  !.gp_regs["bx"] = HostCpuid(m, Low32(m.gp_regs["ax"]), Zero64)[2],
                  !.gp_regs["cx"] = SetBit(HostCpuid(m, Low32(m.gp_regs["ax"]), Zero64)[3], 31, 0),
                  !.gp_regs["dx"] = HostCpuid(m, Low32(m.gp_regs["ax"]), Zero64)[4]])

VmmpHandleCpuid(m) ==
    LET function_id == Low32(m.gp_regs["ax"])
        sub_function_id == Low32(m.gp_regs["cx"])
        cpu_info == HostCpuid(m, function_id, sub_function_id)
        m0 == LogOp(m, "cpuid", "", function_id, sub_function_id)
    IN  IF function_id = Zero64
        THEN VmmpAdjustGuestInstructionPointer(
                [m0 EXCEPT !.gp_regs["ax"] = Nat64(16),
                           !.gp_regs["bx"] = U64(0, 0, 30062, 25927),  \* 0x756E6547
                           !.gp_regs["cx"] = U64(0, 0, 27749, 29806),  \* 0x6C65746E
                           !.gp_regs["dx"] = U64(0, 0, 18789, 28265)]) \* 0x49656E69
        ELSE LET ecx == IF function_id = Nat64(1)
                        THEN SetBit(cpu_info[3], 31, 0) ELSE cpu_info[3]
             IN  VmmpAdjustGuestInstructionPointer(
                    [m0 EXCEPT !.gp_regs["ax"] = cpu_info[1],
                               !.gp_regs["bx"] = cpu_info[2],
                               !.gp_regs["cx"] = ecx,
                               !.gp_regs["dx"] = cpu_info[4]])

VmmpHandleRdtsc(m) ==
    LET tsc == m.hw.tsc
    IN  VmmpAdjustGuestInstructionPointer(
            [LogOp(m, "rdtsc", "", tsc, Zero64)
                EXCEPT !.gp_regs["dx"] = High32(tsc), !.gp_regs["ax"] = Low32(tsc)])

VmmpHandleRdtscp(m) ==
    LET tsc == m.hw.tsc
        tsc_aux == m.hw.tsc_aux
    IN  VmmpAdjustGuestInstructionPointer(
            [LogOp(m, "rdtscp", "", tsc, tsc_aux)
                EXCEPT !.gp_regs["dx"] = High32(tsc), !.gp_regs["ax"] = Low32(tsc),
                       !.gp_regs["cx"] = Low32(tsc_aux)])

VmmpHandleXsetbv(m) ==
    LET value == Join32(Low32(m.gp_regs["dx"]), Low32(m.gp_regs["ax"]))
        index == Low32(m.gp_regs["cx"])
    IN  VmmpAdjustGuestInstructionPointer(
            LogOp([m EXCEPT !.hw.xcr0 = value], "xsetbv", "", index, value))

VmmpHandleInvalidateInternalCaches(m) ==
    VmmpAdjustGuestInstructionPointer(LogOp(m, "invd", "", Zero64, Zero64))

\* the VPID of a processor is its number + 1
VmmpHandleInvalidateTlbEntry(m) ==
    LET invalidate_address == UtilVmRead(m, "kExitQualification")
    IN  VmmpAdjustGuestInstructionPointer(
            LogOp(m, "UtilInvvpidIndividualAddress", "",
                  CurrentProcessorVpid(m), invalidate_address))

\* EptHandleEptViolation is the EPT collaborator
\* the EPT-violation handler that also steps over the faulting instruction
VmmpHandleEptViolation_Advance(m) ==
    VmmpAdjustGuestInstructionPointer(
        LogOp(m, "EptHandleEptViolation", "", HostAddress.ept_data, Zero64))

VmmpHandleEptViolation(m) ==
    LogOp(m, "EptHandleEptViolation", "", HostAddress.ept_data, Zero64)

----------------------------------------------------------------------------
(* RDMSR and WRMSR *)

\* is_vaild_msr: the two ranges, tested on the whole of guest RCX
IsValidMsr(cx) ==
    \/ Le64(cx, U64(0, 0, 0, 8191))                       \* 0x1FFF
    \/ /\ Le64(U64(0, 0, 49152, 0), cx)                   \* 0xC0000000
       /\ Le64(cx, U64(0, 0, 49152, 8191))                \* 0xC0001FFF

\* the index the VMWARE build tolerates, 0x400000f0
ToleratedMsr == U64(0, 0, 16384, 240)

\* the VMCS guest field an MSR is transferred to, "" when it is a real MSR
MsrVmcsField(msr) ==
    CASE msr = Msr.kIa32SysenterCs  -> "kGuestSysenterCs"
      [] msr = Msr.kIa32SysenterEsp -> "kGuestSysenterEsp"
      [] msr = Msr.kIa32SysenterEip -> "kGuestSysenterEip"
      [] msr = Msr.kIa32Debugctl    -> "kGuestIa32Debugctl"
      [] msr = Msr.kIa32GsBase      -> "kGuestGsBase"
      [] msr = Msr.kIa32FsBase      -> "kGuestFsBase"
      [] OTHER -> ""

\* the #GP(0x6A) path of VmmpHandleMsrAccess
\* the rejection that injects #GP and leaves the instruction pointer
VmmpRejectMsrAccess_NoAdvance(m) ==
    VmmpInjectInterruption(m, InterruptionType.kHardwareException,
        InterruptionVector.kGeneralProtectionException, TRUE, Nat64(106))

VmmpRejectMsrAccess(m) ==
    VmmpAdjustGuestInstructionPointer(
        VmmpInjectInterruption(m, InterruptionType.kHardwareException,
            InterruptionVector.kGeneralProtectionException, TRUE, Nat64(106)))

\* the service path of VmmpHandleMsrAccess
VmmpServiceMsrAccess(m, read_access) ==
    LET msr == Low32(m.gp_regs["cx"])
        vmcs_field == MsrVmcsField(msr)
        transfer_to_vmcs == vmcs_field # ""
    IN  IF read_access
        THEN LET msr_value == IF transfer_to_vmcs THEN UtilVmRead(m, vmcs_field)
                              ELSE UtilReadMsr64(m, msr)
                 m1 == IF transfer_to_vmcs THEN UtilVmReadLogged(m, vmcs_field)
                       ELSE UtilReadMsrLogged(m, msr)
             IN  VmmpAdjustGuestInstructionPointer(
                    [m1 EXCEPT !.gp_regs["ax"] = Low32(msr_value),
                               !.gp_regs["dx"] = High32(msr_value)])
        ELSE LET msr_value == Join32(Low32(m.gp_regs["dx"]), Low32(m.gp_regs["ax"]))
             IN  VmmpAdjustGuestInstructionPointer(
                    IF transfer_to_vmcs THEN UtilVmWrite(m, vmcs_field, msr_value)
                    ELSE UtilWriteMsr64(m, msr, msr_value))

\* every index serviced, the range check left out
VmmpHandleMsrAccess_NoCheck(m, read_access) == VmmpServiceMsrAccess(m, read_access)

VmmpHandleMsrAccess(m, read_access) ==
    IF ~IsValidMsr(m.gp_regs["cx"]) /\ m.gp_regs["cx"] # ToleratedMsr
    THEN VmmpRejectMsrAccess(m)
    ELSE VmmpServiceMsrAccess(m, read_access)

VmmpHandleMsrReadAccess(m) == VmmpHandleMsrAccess(m, TRUE)

VmmpHandleMsrWriteAccess(m) == VmmpHandleMsrAccess(m, FALSE)

----------------------------------------------------------------------------
(* VMX instructions and VMCALL *)

\* the status flags with ZF left as the guest had it
StatusFlags_KeepZf(flag_reg, cf) ==
    SetBit(SetBit(SetBit(SetBit(SetBit(flag_reg, FlagBit.cf, cf), FlagBit.pf, 0),
                         FlagBit.af, 0), FlagBit.sf, 0), FlagBit.of, 0)

\* flag_reg with the six status flags set as the VMX conventions say
StatusFlags(flag_reg, cf) ==
    LET f1 == SetBit(flag_reg, FlagBit.cf, cf)
        f2 == SetBit(f1, FlagBit.pf, 0)
        f3 == SetBit(f2, FlagBit.af, 0)
        f4 == SetBit(f3, FlagBit.zf, 0)
        f5 == SetBit(f4, FlagBit.sf, 0)
    IN  SetBit(f5, FlagBit.of, 0)

\* the VMX instruction answered as if it had succeeded: CF = 0
VmmpHandleVmx_Succeeds(m) ==
    VmmpAdjustGuestInstructionPointer(
        UtilVmWrite([m EXCEPT !.ctx.flag_reg = StatusFlags(@, 0)],
                    "kGuestRflags", StatusFlags(m.ctx.flag_reg, 0)))

\* VMfailInvalid: CF = 1, ZF = 0
VmmpHandleVmx(m) ==
    VmmpAdjustGuestInstructionPointer(
        UtilVmWrite([m EXCEPT !.ctx.flag_reg = StatusFlags(@, 1)],
                    "kGuestRflags", StatusFlags(m.ctx.flag_reg, 1)))

VmmpIndicateSuccessfulVmcall(m) ==
    VmmpAdjustGuestInstructionPointer(
        UtilVmWrite([m EXCEPT !.ctx.flag_reg = StatusFlags(@, 0)],
                    "kGuestRflags", StatusFlags(m.ctx.flag_reg, 0)))

\* the unsuccessful indication that also steps over the VMCALL
VmmpIndicateUnsuccessfulVmcall_Advance(m) ==
    VmmpAdjustGuestInstructionPointer(
        VmmpInjectInterruption(m, InterruptionType.kHardwareException,
            InterruptionVector.kInvalidOpcodeException, FALSE, Zero64))

VmmpIndicateUnsuccessfulVmcall(m) ==
    UtilVmWrite(
        VmmpInjectInterruption(m, InterruptionType.kHardwareException,
            InterruptionVector.kInvalidOpcodeException, FALSE, Zero64),
        "kVmEntryInstructionLen", UtilVmRead(m, "kVmExitInstructionLen"))

\* __lgdt and __lidt with the base and limit the VMCS holds for the guest
VmmpLoadGuestDescriptorTables(m) ==
    LET gdt_limit == UtilVmRead(m, "kGuestGdtrLimit")
        gdt_base == UtilVmRead(m, "kGuestGdtrBase")
        idt_limit == UtilVmRead(m, "kGuestIdtrLimit")
        idt_base == UtilVmRead(m, "kGuestIdtrBase")
    IN  LogOp(LogOp([m EXCEPT !.hw.gdtr = [limit |-> gdt_limit[4], base |-> gdt_base],
                              !.hw.idtr = [limit |-> idt_limit[4], base |-> idt_base]],
                    "lgdt", "", gdt_base, gdt_limit),
              "lidt", "", idt_base, idt_limit)

\* the termination registers with RAX the flags as the guest had them
VmmpSetTerminationRegisters_RawFlags(m) ==
    [m EXCEPT !.gp_regs["cx"] = Add64(m.ctx.ip, UtilVmRead(m, "kVmExitInstructionLen")),
              !.gp_regs["dx"] = m.gp_regs["sp"],
              !.gp_regs["ax"] = m.ctx.flag_reg,
              !.ctx.vm_continue = FALSE]

\* the registers AsmVmmEntryPoint returns to the guest with after VMXOFF:
\* RCX the address to continue at, RDX the guest stack pointer, RAX the flags
VmmpSetTerminationRegisters(m) ==
    LET return_address == Add64(m.ctx.ip, UtilVmRead(m, "kVmExitInstructionLen"))
        flag_reg == StatusFlags(m.ctx.flag_reg, 0)
    IN  [m EXCEPT !.ctx.flag_reg = flag_reg,
                  !.gp_regs["cx"] = return_address,
                  !.gp_regs["dx"] = m.gp_regs["sp"],
                  !.gp_regs["ax"] = flag_reg,
                  !.ctx.vm_continue = FALSE]

VmmpHandleVmCallTermination(m, context) ==
    VmmpSetTerminationRegisters(
        WriteMemory(VmmpLoadGuestDescriptorTables(m), context,
                    HostAddress.processor_data))

UtilIsInBounds(value, min, max) == Le64(min, value) /\ Le64(value, max)

\* the switch without its case for kPingVmm: the number is in the valid
\* range and falls out of the switch
VmmpDispatchVmCall_NoPing(m, hypercall_number, context) ==
    CASE hypercall_number = HypercallNumber.kTerminateVmm ->
            IF VmmpGetGuestCpl(m) = 0
            THEN VmmpHandleVmCallTermination(m, context)
            ELSE VmmpIndicateUnsuccessfulVmcall(m)
      [] hypercall_number = HypercallNumber.kGetSharedProcessorData ->
            VmmpIndicateSuccessfulVmcall(
                WriteMemory(m, context, HostAddress.shared_data))
      [] OTHER -> m

\* the switch of VmmpHandleVmCall
VmmpDispatchVmCall(m, hypercall_number, context) ==
    CASE hypercall_number = HypercallNumber.kTerminateVmm ->
            IF VmmpGetGuestCpl(m) = 0
            THEN VmmpHandleVmCallTermination(m, context)
            ELSE VmmpIndicateUnsuccessfulVmcall(m)
      [] hypercall_number = HypercallNumber.kPingVmm ->
            VmmpIndicateSuccessfulVmcall(m)
      [] hypercall_number = HypercallNumber.kGetSharedProcessorData ->
            VmmpIndicateSuccessfulVmcall(
                WriteMemory(m, context, HostAddress.shared_data))
      [] OTHER -> m

\* a number out of bounds is answered with #UD, and the switch follows
VmmpHandleVmCall(m) ==
    VmmpDispatchVmCall(
        IF ~UtilIsInBounds(Low32(m.gp_regs["cx"]),
                           HypercallNumber.kMinimumHypercallNumber,
                           HypercallNumber.kMaximumHypercallNumber)
        THEN VmmpIndicateUnsuccessfulVmcall(m) ELSE m,
        Low32(m.gp_regs["cx"]), m.gp_regs["dx"])

----------------------------------------------------------------------------
(* MOV to / from CRx *)

\* the fixed-to-one bits left out
ApplyFixedBits_NoFixed0(value, fixed0, fixed1) == And64(value, fixed1)

\* cr.all &= fixed1; cr.all |= fixed0
ApplyFixedBits(value, fixed0, fixed1) == Or64(And64(value, fixed1), fixed0)

\* the source register committed with its bit 63
MaskCr3_Unmasked(value) == value

\* *register_used & ~(1ULL << 63)
MaskCr3(value) == SetBit(value, 63, 0)

VmmpMoveToCr0(m, register_used) ==
    LET m1 == UtilReadMsrLogged(m, Msr.kIa32VmxCr0Fixed0)
        m2 == UtilReadMsrLogged(m1, Msr.kIa32VmxCr0Fixed1)
        cr0 == ApplyFixedBits(m.gp_regs[register_used],
                              UtilReadMsr64(m, Msr.kIa32VmxCr0Fixed0),
                              UtilReadMsr64(m, Msr.kIa32VmxCr0Fixed1))
    IN  UtilVmWrite(UtilVmWrite(m2, "kGuestCr0", cr0), "kCr0ReadShadow", cr0)

VmmpMoveToCr3(m, register_used) ==
    LET m1 == LogOp(m, "UtilInvvpidSingleContextExceptGlobal", "",
                    CurrentProcessorVpid(m), Zero64)
    IN  UtilVmWrite(m1, "kGuestCr3", MaskCr3(m.gp_regs[register_used]))

VmmpMoveToCr4(m, register_used) ==
    LET m0 == LogOp(m, "UtilInvvpidAllContext", "", Zero64, Zero64)
        m1 == UtilReadMsrLogged(m0, Msr.kIa32VmxCr4Fixed0)
        m2 == UtilReadMsrLogged(m1, Msr.kIa32VmxCr4Fixed1)
        cr4 == ApplyFixedBits(m.gp_regs[register_used],
                              UtilReadMsr64(m, Msr.kIa32VmxCr4Fixed0),
                              UtilReadMsr64(m, Msr.kIa32VmxCr4Fixed1))
    IN  UtilVmWrite(UtilVmWrite(m2, "kGuestCr4", cr4), "kCr4ReadShadow", cr4)

\* MovCrAccessType: 0 kMoveToCr, 1 kMoveFromCr, 2 kClts, 3 kLmsw
VmmpHandleCrAccess(m) ==
    LET exit_qualification == UtilVmRead(m, "kExitQualification")
        control_register == Bits(exit_qualification, 0, 4)
        access_type == Bits(exit_qualification, 4, 2)
        register_used == VmmpSelectRegister(Bits(exit_qualification, 8, 4))
    IN  VmmpAdvanceUnlessHalted(
          CASE access_type = 0 ->
                ( CASE control_register = 0 -> VmmpMoveToCr0(m, register_used)
                    [] control_register = 3 -> VmmpMoveToCr3(m, register_used)
                    [] control_register = 4 -> VmmpMoveToCr4(m, register_used)
                    [] control_register = 8 ->
                           [m EXCEPT !.ctx.cr8 = m.gp_regs[register_used]]
                    [] OTHER -> BugCheck(m, "kUnspecified", Zero64, Zero64, Zero64) )
            [] access_type = 1 ->
                ( CASE control_register = 3 ->
                           SetRegister(m, register_used, UtilVmRead(m, "kGuestCr3"))
                    [] control_register = 8 ->
                           SetRegister(m, register_used, m.ctx.cr8)
                    [] OTHER -> BugCheck(m, "kUnspecified", Zero64, Zero64, Zero64) )
            [] OTHER -> DbgBreak(m))

----------------------------------------------------------------------------
(* MOV to / from DRx *)

\* the source value written as it is
Dr6WriteValue_Raw(value) == value

\* Dr6 with reserved1 [4:11] and reserved3 [17:31] all ones, reserved2 [12] zero
Dr6WriteValue(value) ==
    LET w0 == value[4]
        lo == (w0 % 16) + 4080 + ((w0 \div 8192) * 8192)
        hi == Or16(value[3], 65534)
    IN  <<value[1], value[2], hi, lo>>

\* Dr7 with reserved1 [10] one, reserved2 [12] and reserved3 [14:15] zero
Dr7WriteValue(value) ==
    LET v1 == SetBit(value, 10, 1)
        v2 == SetBit(v1, 12, 0)
        v3 == SetBit(v2, 14, 0)
    IN  SetBit(v3, 15, 0)

WriteDr(m, n, value) == LogOp([m EXCEPT !.hw.dr[n] = value], "writedr", "", Nat64(n), value)

\* the general-detect path that leaves DR7.GD set in the VMCS
VmmpDrGeneralDetect_KeepGd(m, guest_dr7) ==
    VmmpInjectInterruption(
        WriteDr(m, 6, SetBit(SetBit(SetBit(SetBit(SetBit(m.hw.dr[6], 0, 0), 1, 0),
                                           2, 0), 3, 0), 13, 1)),
        InterruptionType.kHardwareException,
        InterruptionVector.kDebugException, FALSE, Zero64)

\* the general-detect path: #DB with DR6.B0-3 cleared and DR6.BD set
VmmpDrGeneralDetect(m, guest_dr7) ==
    LET dr6a == SetBit(SetBit(SetBit(SetBit(m.hw.dr[6], 0, 0), 1, 0), 2, 0), 3, 0)
        dr6 == SetBit(dr6a, 13, 1)
        m1 == WriteDr(m, 6, dr6)
        m2 == VmmpInjectInterruption(m1, InterruptionType.kHardwareException,
                  InterruptionVector.kDebugException, FALSE, Zero64)
    IN  UtilVmWrite(m2, "kGuestDr7", SetBit(guest_dr7, 13, 0))

\* the register move itself; direction 0 is kMoveToDr, 1 is kMoveFromDr
VmmpMoveDr(m, debugl_register, register_used, direction) ==
    LET value == m.gp_regs[register_used]
    IN  IF direction = 0
        THEN CASE debugl_register \in {0, 1, 2, 3} -> WriteDr(m, debugl_register, value)
               [] debugl_register = 6 -> WriteDr(m, 6, Dr6WriteValue(value))
               [] debugl_register = 7 -> UtilVmWrite(m, "kGuestDr7", Dr7WriteValue(value))
               [] OTHER -> m
        ELSE CASE debugl_register \in {0, 1, 2, 3, 6} ->
                    SetRegister(LogOp(m, "readdr", "", Nat64(debugl_register),
                                      m.hw.dr[debugl_register]),
                                register_used, m.hw.dr[debugl_register])
               [] debugl_register = 7 ->
                    SetRegister(m, register_used, UtilVmRead(m, "kGuestDr7"))
               [] OTHER -> m

\* DR4 and DR5 taken for registers of their own
AliasedDebugRegister_None(debugl_register) == debugl_register

\* with CR4.DE clear DR4 is DR6 and DR5 is DR7
AliasedDebugRegister(debugl_register) ==
    IF debugl_register = 4 THEN 6
    ELSE IF debugl_register = 5 THEN 7 ELSE debugl_register

VmmpHandleDrAccess(m) ==
    IF VmmpGetGuestCpl(m) # 0
    THEN VmmpInjectInterruption(m, InterruptionType.kHardwareException,
             InterruptionVector.kGeneralProtectionException, TRUE, Zero64)
    ELSE
    LET exit_qualification == UtilVmRead(m, "kExitQualification")
        raw_register == Bits(exit_qualification, 0, 3)
        de == Bit(UtilVmRead(m, "kGuestCr4"), 3) = 1
        debugl_register == AliasedDebugRegister(raw_register)
        guest_dr7 == UtilVmRead(m, "kGuestDr7")
        register_used == VmmpSelectRegister(Bits(exit_qualification, 8, 4))
        direction == Bit(exit_qualification, 4)
    IN  IF raw_register \in {4, 5} /\ de
        THEN VmmpInjectInterruption(m, InterruptionType.kHardwareException,
                 InterruptionVector.kInvalidOpcodeException, FALSE, Zero64)
        ELSE IF Bit(guest_dr7, 13) = 1
        THEN VmmpDrGeneralDetect(m, guest_dr7)
        ELSE IF /\ direction = 0
                /\ debugl_register \in {6, 7}
                /\ High32(m.gp_regs[register_used]) # Zero64
        THEN VmmpInjectInterruption(m, InterruptionType.kHardwareException,
                 InterruptionVector.kGeneralProtectionException, TRUE, Zero64)
        ELSE VmmpAdjustGuestInstructionPointer(
                 VmmpMoveDr(m, debugl_register, register_used, direction))

----------------------------------------------------------------------------
(* IN, INS, OUT, OUTS *)

\* value * size_of_access for the access sizes 1, 2 and 4
TimesSize(value, size_of_access) ==
    CASE size_of_access = 1 -> value
      [] size_of_access = 2 -> Add64(value, value)
      [] OTHER -> Add64(Add64(value, value), Add64(value, value))

\* the low size_of_access bytes of old replaced by those of data
StoreLowBytes(old, data, size_of_access) ==
    CASE size_of_access = 1 ->
            <<old[1], old[2], old[3], (old[4] \div 256) * 256 + (data[4] % 256)>>
      [] size_of_access = 2 -> <<old[1], old[2], old[3], data[4]>>
      [] OTHER -> <<old[1], old[2], data[3], data[4]>>

\* count is an unsigned long: the low 32 bits of what the caller passes
VmmpIoTransfer(m, to_memory, is_string, size_of_access, port, address, count) ==
    IF to_memory
    THEN IF is_string
         THEN WriteMemory(LogOp(m, "ins", "", address, Low32(count)),
                          address, m.hw.port_in)
         ELSE SetRegister(LogOp(m, "in", "", Nat64(port), Zero64), "ax",
                  StoreLowBytes(m.gp_regs["ax"], m.hw.port_in, size_of_access))
    ELSE IF is_string
         THEN LogOp(ReadMemoryLogged(m, address), "outs", "", address, Low32(count))
         ELSE LogOp(m, "out", "", Nat64(port), m.gp_regs["ax"])

\* the transfer with the guest's kernel CR3 left loaded
VmmpIoWrapper_NoRestore(m, to_memory, is_string, size_of_access, port, address, count) ==
    VmmpIoTransfer(WriteCr3(m, VmmpGetKernelCr3(m)), to_memory, is_string,
                   size_of_access, port, address, count)

\* the transfer runs with the guest's kernel CR3 loaded, and the CR3 of the
\* VMM is loaded again after it
VmmpIoWrapper(m, to_memory, is_string, size_of_access, port, address, count) ==
    WriteCr3(
        VmmpIoTransfer(WriteCr3(m, VmmpGetKernelCr3(m)), to_memory, is_string,
                       size_of_access, port, address, count),
        m.hw.cr3)

\* RDI or RSI moved up whatever DF says
VmmpUpdateStringRegisters_IgnoreDf(m, is_in, is_rep, size_of_access) ==
    [m EXCEPT !.gp_regs[IF is_in THEN "di" ELSE "si"] =
                  Add64(@, TimesSize(IF is_rep THEN m.gp_regs["cx"] ELSE Nat64(1),
                                     size_of_access)),
              !.gp_regs["cx"] = IF is_rep THEN Zero64 ELSE @]

\* RDI or RSI moved by the bytes transferred, up or down as DF says, and RCX
\* cleared after a REP
VmmpUpdateStringRegisters(m, is_in, is_rep, size_of_access) ==
    LET update_count == IF is_rep THEN m.gp_regs["cx"] ELSE Nat64(1)
        update_size == TimesSize(update_count, size_of_access)
        update_register == IF is_in THEN "di" ELSE "si"
        moved == IF Flag(m.ctx.flag_reg, "df")
                 THEN Sub64(m.gp_regs[update_register], update_size)
                 ELSE Add64(m.gp_regs[update_register], update_size)
    IN  [m EXCEPT !.gp_regs[update_register] = moved,
                  !.gp_regs["cx"] = IF is_rep THEN Zero64 ELSE @]

\* IoInstSizeOfAccess: 0 is one byte, 1 two bytes, 3 four bytes
VmmpHandleIoPort(m) ==
    LET exit_qualification == UtilVmRead(m, "kExitQualification")
        is_in == Bit(exit_qualification, 3) = 1
        is_string == Bit(exit_qualification, 4) = 1
        is_rep == Bit(exit_qualification, 5) = 1
        port == Bits(exit_qualification, 16, 16)
        string_address == IF is_in THEN m.gp_regs["di"] ELSE m.gp_regs["si"]
        count == Low32(IF is_rep THEN m.gp_regs["cx"] ELSE Nat64(1))
        size_field == Bits(exit_qualification, 0, 3)
        size_of_access == CASE size_field = 0 -> 1
                            [] size_field = 1 -> 2
                            [] size_field = 3 -> 4
                            [] OTHER -> 0
    IN  IF size_of_access = 0
        THEN BugCheck(WriteCr3(m, VmmpGetKernelCr3(m)),
                      "kUnspecified", Zero64, Zero64, Zero64)
        ELSE IF is_string
        THEN VmmpAdjustGuestInstructionPointer(
                VmmpUpdateStringRegisters(
                    VmmpIoWrapper(m, is_in, is_string, size_of_access, port,
                                  string_address, count),
                    is_in, is_rep, size_of_access))
        ELSE VmmpAdjustGuestInstructionPointer(
                VmmpIoWrapper(m, is_in, is_string, size_of_access, port,
                              string_address, count))

----------------------------------------------------------------------------
(* LGDT, SGDT, LIDT, SIDT, LLDT, LTR, SLDT, STR *)

\* Scaling: 0 none, 1 by 2, 2 by 4, 3 by 8
ScaleIndex(index_value, scalling) ==
    CASE scalling = 1 -> Add64(index_value, index_value)
      [] scalling = 2 -> TimesSize(index_value, 4)
      [] scalling = 3 -> Add64(TimesSize(index_value, 4), TimesSize(index_value, 4))
      [] OTHER -> index_value

SegmentBaseField(segment_register) ==
    CASE segment_register = 0 -> "kGuestEsBase"
      [] segment_register = 1 -> "kGuestCsBase"
      [] segment_register = 2 -> "kGuestSsBase"
      [] segment_register = 3 -> "kGuestDsBase"
      [] segment_register = 4 -> "kGuestFsBase"
      [] segment_register = 5 -> "kGuestGsBase"
      [] OTHER -> ""

\* the effective address of the memory operand the instruction information
\* and the displacement in the exit qualification describe
OperationAddress(m, instruction_info) ==
    LET displacement == UtilVmRead(m, "kExitQualification")
        base_value == IF Bit(instruction_info, 27) = 0
                      THEN m.gp_regs[VmmpSelectRegister(Bits(instruction_info, 23, 4))]
                      ELSE Zero64
        index_value == IF Bit(instruction_info, 22) = 0
                       THEN ScaleIndex(
                              m.gp_regs[VmmpSelectRegister(Bits(instruction_info, 18, 4))],
                              Bits(instruction_info, 0, 2))
                       ELSE Zero64
        field == SegmentBaseField(Bits(instruction_info, 15, 3))
        segment_base == IF field = "" THEN Zero64 ELSE UtilVmRead(m, field)
        address == Add64(Add64(segment_base, base_value),
                         Add64(index_value, displacement))
    IN  IF Bits(instruction_info, 7, 3) = 1 THEN Low32(address) ELSE address

\* gdt_base + ss.fields.index * sizeof(SegmentDescriptor)
DescriptorAddress(gdt_base, selector) ==
    Add64(gdt_base, <<0, 0, 0, (selector[4] \div 8) * 8>>)

\* a pseudo-descriptor at address: the limit, then the base two bytes on
StoreDescriptorTable(m, address, base, limit) ==
    WriteMemory(WriteMemory(m, address, limit), Add64(address, Nat64(2)), base)

\* SGDT / SIDT: ten bytes when the guest code segment is a 64-bit one
VmmpStoreDescriptorTable(m, address, base, limit) ==
    LET gdt_base == UtilVmRead(m, "kGuestGdtrBase")
        segment_descriptor ==
            DescriptorAddress(gdt_base, UtilVmRead(m, "kGuestCsSelector"))
        m1 == ReadMemoryLogged(m, segment_descriptor)
        limit16 == <<0, 0, 0, limit[4]>>
    IN  IF Bit(ReadMemory(m, segment_descriptor), 53) = 1
        THEN StoreDescriptorTable(m1, address, base, limit16)
        ELSE StoreDescriptorTable(m1, address, Low32(base), limit16)

\* GdtrOrIdtrInstructionIdentity: 0 kSgdt, 1 kSidt, 2 kLgdt, 3 kLidt
VmmpAccessDescriptorTable(m, identity, operation_address) ==
    LET limit == <<0, 0, 0, ReadMemory(m, operation_address)[4]>>
        base == ReadMemory(m, Add64(operation_address, Nat64(2)))
    IN  CASE identity = 0 ->
                VmmpStoreDescriptorTable(m, operation_address,
                    UtilVmRead(m, "kGuestGdtrBase"), UtilVmRead(m, "kGuestGdtrLimit"))
          [] identity = 1 ->
                VmmpStoreDescriptorTable(m, operation_address,
                    UtilVmRead(m, "kGuestIdtrBase"), UtilVmRead(m, "kGuestIdtrLimit"))
          [] identity = 2 ->
                UtilVmWrite(
                    UtilVmWrite(
                        ReadMemoryLogged(ReadMemoryLogged(m, operation_address),
                                         Add64(operation_address, Nat64(2))),
                        "kGuestGdtrBase", base),
                    "kGuestGdtrLimit", limit)
          [] OTHER ->
                UtilVmWrite(
                    UtilVmWrite(
                        ReadMemoryLogged(ReadMemoryLogged(m, operation_address),
                                         Add64(operation_address, Nat64(2))),
                        "kGuestIdtrBase", base),
                    "kGuestIdtrLimit", limit)

\* the access runs with the guest's kernel CR3 loaded
VmmpHandleGdtrOrIdtrAccess(m) ==
    VmmpAdjustGuestInstructionPointer(
        WriteCr3(
            VmmpAccessDescriptorTable(
                WriteCr3(LogOp(m, "readcr3", "", m.hw.cr3, Zero64),
                         VmmpGetKernelCr3(m)),
                Bits(Low32(UtilVmRead(m, "kVmxInstructionInfo")), 28, 2),
                OperationAddress(m, Low32(UtilVmRead(m, "kVmxInstructionInfo")))),
            m.hw.cr3))

\* the 16-bit store *selector = value, into a register slot or guest memory
StoreSelector(m, register_access, register_used, address, value) ==
    IF register_access
    THEN SetRegister(m, register_used,
                     StoreLowBytes(m.gp_regs[register_used], value, 2))
    ELSE WriteMemory(m, address, <<0, 0, 0, value[4]>>)

\* the 16-bit load *selector
LoadSelector(m, register_access, register_used, address) ==
    IF register_access THEN <<0, 0, 0, m.gp_regs[register_used][4]>>
    ELSE <<0, 0, 0, ReadMemory(m, address)[4]>>

\* LdtrOrTrInstructionIdentity: 0 kSldt, 1 kStr, 2 kLldt, 3 kLtr
\* LTR marks the TSS descriptor of the selector busy in the guest's GDT
VmmpSetTssBusy(m, selector) ==
    LET sd == DescriptorAddress(UtilVmRead(m, "kGuestGdtrBase"), selector)
    IN  WriteMemory(ReadMemoryLogged(m, sd), sd, SetBit(ReadMemory(m, sd), 41, 1))

VmmpAccessSelector(m, identity, register_access, register_used, operation_address) ==
    LET selector == LoadSelector(m, register_access, register_used, operation_address)
    IN  CASE identity = 0 ->
                StoreSelector(m, register_access, register_used, operation_address,
                              UtilVmRead(m, "kGuestLdtrSelector"))
          [] identity = 1 ->
                StoreSelector(m, register_access, register_used, operation_address,
                              UtilVmRead(m, "kGuestTrSelector"))
          [] identity = 2 ->
                UtilVmWrite(IF register_access THEN m
                            ELSE ReadMemoryLogged(m, operation_address),
                            "kGuestLdtrSelector", selector)
          [] OTHER ->
                VmmpSetTssBusy(
                    UtilVmWrite(IF register_access THEN m
                                ELSE ReadMemoryLogged(m, operation_address),
                                "kGuestTrSelector", selector),
                    selector)

\* the access runs with the guest's kernel CR3 loaded; a register operand is
\* the slot of the register in the trapped register file
VmmpHandleLdtrOrTrAccess(m) ==
    LET instruction_info == Low32(UtilVmRead(m, "kVmxInstructionInfo"))
        register_access == Bit(instruction_info, 10) = 1
    IN  VmmpAdjustGuestInstructionPointer(
            WriteCr3(
                VmmpAccessSelector(
                    WriteCr3(LogOp(m, "readcr3", "", m.hw.cr3, Zero64),
                             VmmpGetKernelCr3(m)),
                    Bits(instruction_info, 28, 2),
                    register_access,
                    VmmpSelectRegister(Bits(instruction_info, 3, 4)),
                    IF register_access THEN HostAddress.guest_context
                    ELSE OperationAddress(m, instruction_info)),
                m.hw.cr3))

----------------------------------------------------------------------------
(* The dispatcher *)

\* exit_reason.fields.reason: the low 16 bits of the exit reason field
ExitReason(m) == UtilVmRead(m, "kVmExitReason")[4]

VmmpHandleVmExit(m) ==
    LET reason == ExitReason(m)
    IN  CASE reason = VmxExitReason.kExceptionOrNmi -> VmmpHandleException(m)
          [] reason = VmxExitReason.kTripleFault -> VmmpHandleTripleFault(m)
          [] reason = VmxExitReason.kCpuid -> VmmpHandleCpuid(m)
          [] reason = VmxExitReason.kInvd -> VmmpHandleInvalidateInternalCaches(m)
          [] reason = VmxExitReason.kInvlpg -> VmmpHandleInvalidateTlbEntry(m)
          [] reason = VmxExitReason.kRdtsc -> VmmpHandleRdtsc(m)
          [] reason = VmxExitReason.kCrAccess -> VmmpHandleCrAccess(m)
          [] reason = VmxExitReason.kDrAccess -> VmmpHandleDrAccess(m)
          [] reason = VmxExitReason.kIoInstruction -> VmmpHandleIoPort(m)
          [] reason = VmxExitReason.kMsrRead -> VmmpHandleMsrReadAccess(m)
          [] reason = VmxExitReason.kMsrWrite -> VmmpHandleMsrWriteAccess(m)
          [] reason = VmxExitReason.kMonitorTrapFlag -> VmmpHandleMonitorTrap(m)
          [] reason = VmxExitReason.kGdtrOrIdtrAccess -> VmmpHandleGdtrOrIdtrAccess(m)
          [] reason = VmxExitReason.kLdtrOrTrAccess -> VmmpHandleLdtrOrTrAccess(m)
          [] reason = VmxExitReason.kEptViolation -> VmmpHandleEptViolation(m)
          [] reason = VmxExitReason.kEptMisconfig -> VmmpHandleEptMisconfig(m)
          [] reason = VmxExitReason.kVmcall -> VmmpHandleVmCall(m)
          [] reason \in VmxInstructionReasons -> VmmpHandleVmx(m)
          [] reason = VmxExitReason.kRdtscp -> VmmpHandleRdtscp(m)
          [] reason = VmxExitReason.kXsetbv -> VmmpHandleXsetbv(m)
          [] OTHER -> VmmpHandleUnexpectedExit(m)

\* KeRaiseIrqlToDpcLevel
KeRaiseIrqlToDpcLevel(m) ==
    LogOp([m EXCEPT !.hw.irql = DISPATCH_LEVEL], "KeRaiseIrqlToDpcLevel", "",
          Zero64, Zero64)

\* KeLowerIrql
KeLowerIrql(m, irql) ==
    LogOp([m EXCEPT !.hw.irql = irql], "KeLowerIrql", "", Nat64(irql), Zero64)

\* __writecr8
WriteCr8(m, value) == LogOp([m EXCEPT !.hw.cr8 = value], "writecr8", "", value, Zero64)

\* no invalidation before VMXOFF
VmmpInvalidateAll_None(m) == m

\* the invalidations issued before VMXOFF
VmmpInvalidateAll(m) ==
    LogOp(LogOp(m, "UtilInveptGlobal", "", Zero64, Zero64),
          "UtilInvvpidAllContext", "", Zero64, Zero64)

\* the part of VmmVmExitHandler before the dispatch: capture the guest state
VmmpCaptureGuestContext(m) ==
    SetRegister(
        [(IF m.hw.irql < DISPATCH_LEVEL THEN KeRaiseIrqlToDpcLevel(m) ELSE m)
            EXCEPT !.ctx = [flag_reg |-> UtilVmRead(m, "kGuestRflags"),
                            ip |-> UtilVmRead(m, "kGuestRip"),
                            cr8 |-> m.hw.cr8,
                            irql |-> m.hw.irql,
                            vm_continue |-> TRUE]],
        "sp", UtilVmRead(m, "kGuestRsp"))

\* the IRQL lowered to what it was at the exit, if the handler raised it
VmmpLowerIrql(m) ==
    IF m.ctx.irql < DISPATCH_LEVEL THEN KeLowerIrql(m, m.ctx.irql) ELSE m

\* a return that leaves the IRQL where the handler raised it
VmmpRestoreGuestContext_KeepIrql(m) ==
    WriteCr8(IF ~m.ctx.vm_continue THEN VmmpInvalidateAll(m) ELSE m, m.ctx.cr8)

\* the part of VmmVmExitHandler after the dispatch: restore and return
VmmpRestoreGuestContext(m) ==
    WriteCr8(VmmpLowerIrql(IF ~m.ctx.vm_continue THEN VmmpInvalidateAll(m) ELSE m),
             m.ctx.cr8)

\* a bug check in a handler ends VmmVmExitHandler where it is
VmmpReturnUnlessHalted(m) ==
    IF Halted(m) THEN m ELSE VmmpRestoreGuestContext(m)

\* VmmVmExitHandler
VmmVmExitHandlerBody(m) ==
    VmmpReturnUnlessHalted(VmmpHandleVmExit(VmmpCaptureGuestContext(m)))

----------------------------------------------------------------------------
(* The state after bring-up *)

VmcsFields ==
    {"kVmExitReason", "kExitQualification", "kVmxInstructionInfo",
     "kVmExitInstructionLen", "kVmExitIntrInfo", "kVmExitIntrErrorCode",
     "kGuestPhysicalAddress", "kVmInstructionError",
     "kVmEntryIntrInfoField", "kVmEntryExceptionErrorCode", "kVmEntryInstructionLen",
     "kGuestRip", "kGuestRsp", "kGuestRflags",
     "kGuestCr0", "kGuestCr3", "kGuestCr4", "kCr0ReadShadow", "kCr4ReadShadow",
     "kGuestDr7", "kGuestSsArBytes", "kGuestCsSelector",
     "kGuestSysenterCs", "kGuestSysenterEsp", "kGuestSysenterEip",
     "kGuestIa32Debugctl",
     "kGuestEsBase", "kGuestCsBase", "kGuestSsBase", "kGuestDsBase",
     "kGuestFsBase", "kGuestGsBase",
     "kGuestGdtrBase", "kGuestGdtrLimit", "kGuestIdtrBase", "kGuestIdtrLimit",
     "kGuestLdtrSelector", "kGuestTrSelector"}

RegisterSet == {RegisterNames[i] : i \in 1..16}

\* the guest's kernel CR3, the host's (system process) CR3
GuestCr3 == U64(0, 0, 26, 40960)
HostCr3 == U64(0, 0, 26, 45056)

\* guest addresses the model's memory maps
GdtBase == U64(65535, 63488, 1, 0)
IdtBase == U64(65535, 63488, 2, 0)
GuestBuffer == U64(0, 0, 32, 256)

MemoryAddresses ==
    {GuestBuffer, Add64(GuestBuffer, Nat64(2)),
     Add64(GdtBase, Nat64(16)), Add64(GdtBase, Nat64(64))}

\* IA32_VMX_CR0_FIXED0/1 and IA32_VMX_CR4_FIXED0/1 as processors report them
Cr0Fixed0 == U64(0, 0, 32768, 33)          \* 0x80000021: PG, NE, PE
Cr0Fixed1 == U64(0, 0, 65535, 65535)       \* 0xFFFFFFFF
Cr4Fixed0 == U64(0, 0, 0, 8192)            \* 0x2000: VMXE
Cr4Fixed1 == U64(0, 0, 55, 26623)          \* 0x3767FF

\* hardware MSRs the model holds, other than the fixed-bit ones
PlainMsrs ==
    {U64(0, 0, 0, 16), U64(0, 0, 0, 8191), U64(0, 0, 49152, 0),
     U64(0, 0, 49152, 128), U64(0, 0, 49152, 8191), ToleratedMsr}

InitMsr(fixed) ==
    [i \in PlainMsrs \cup {Msr.kIa32VmxCr0Fixed0, Msr.kIa32VmxCr0Fixed1,
                           Msr.kIa32VmxCr4Fixed0, Msr.kIa32VmxCr4Fixed1} |->
        CASE i = Msr.kIa32VmxCr0Fixed0 -> fixed.cr0_fixed0
          [] i = Msr.kIa32VmxCr0Fixed1 -> fixed.cr0_fixed1
          [] i = Msr.kIa32VmxCr4Fixed0 -> fixed.cr4_fixed0
          [] i = Msr.kIa32VmxCr4Fixed1 -> fixed.cr4_fixed1
          [] OTHER -> Zero64]

TypicalFixed ==
    [cr0_fixed0 |-> Cr0Fixed0, cr0_fixed1 |-> Cr0Fixed1,
     cr4_fixed0 |-> Cr4Fixed0, cr4_fixed1 |-> Cr4Fixed1]

InitVmcs ==
    [f \in VmcsFields |->
        CASE f = "kGuestCr0" -> U64(0, 0, 32773, 49)       \* 0x80050031
          [] f = "kCr0ReadShadow" -> U64(0, 0, 32773, 49)
          [] f = "kGuestCr4" -> U64(0, 0, 0, 9976)         \* 0x26F8
          [] f = "kCr4ReadShadow" -> U64(0, 0, 0, 9976)
          [] f = "kGuestCr3" -> GuestCr3
          [] f = "kGuestDr7" -> Nat64(1024)                \* 0x400
          [] f = "kGuestRflags" -> Nat64(2)
          [] f = "kGuestCsSelector" -> Nat64(16)
          [] f = "kGuestGdtrBase" -> GdtBase
          [] f = "kGuestGdtrLimit" -> Nat64(127)
          [] f = "kGuestIdtrBase" -> IdtBase
          [] f = "kGuestIdtrLimit" -> Nat64(4095)
          [] f = "kGuestTrSelector" -> Nat64(64)
          [] OTHER -> Zero64]

\* the leaves and subleaves the host's CPUID is modelled for
CpuidLeaves == {Nat64(0), Nat64(1), Nat64(7), U64(0, 0, 16384, 0)}
CpuidSubleaves == {Zero64, Nat64(1)}

\* what __cpuidex returns on an Intel processor: leaf 0 spells GenuineIntel,
\* leaf 7 differs between its subleaves, leaf 0x40000000 is not implemented
IntelCpuid ==
    [q \in CpuidLeaves \X CpuidSubleaves |->
        CASE q[1] = Nat64(0) ->
                <<Nat64(22), U64(0, 0, 30062, 25927),
                  U64(0, 0, 27749, 29806), U64(0, 0, 18789, 28265)>>
          [] q[1] = Nat64(1) ->
                <<U64(0, 0, 9, 1770), U64(0, 0, 256, 2048),
                  U64(0, 0, 32762, 12803), U64(0, 0, 48891, 64511)>>
          [] q[1] = Nat64(7) ->
                IF q[2] = Zero64
                THEN <<Nat64(1), U64(0, 0, 668, 10155), Zero64, Zero64>>
                ELSE <<Nat64(16), Zero64, Zero64, Zero64>>
          [] OTHER -> <<Zero64, Zero64, Zero64, Zero64>>]

InitHw(fixed) ==
    [msr |-> InitMsr(fixed),
     dr |-> [n \in {0, 1, 2, 3, 6} |->
                IF n = 6 THEN U64(0, 0, 65535, 4081) ELSE Zero64],
     cr2 |-> Zero64, cr3 |-> HostCr3, cr8 |-> Zero64, irql |-> 0,
     xcr0 |-> Nat64(7),
     tsc |-> U64(0, 18, 54321, 1234), tsc_aux |-> Zero64,
     directory_table_base |-> GuestCr3,
     gdtr |-> [limit |-> 65535, base |-> GdtBase],
     idtr |-> [limit |-> 65535, base |-> IdtBase],
     port_in |-> U64(0, 0, 43981, 61185),
     cpuid |-> IntelCpuid,
     mem |-> [a \in MemoryAddresses |->
                IF a = Add64(GdtBase, Nat64(16)) THEN U64(32, 39680, 0, 0)
                ELSE IF a = Add64(GdtBase, Nat64(64)) THEN U64(0, 35328, 0, 103)
                ELSE Zero64],
     ept_entry |-> [a \in {GuestBuffer} |->
                      [address |-> U64(65535, 63488, 0, 20480),
                       all |-> U64(0, 0, 18, 13367)]],
     processor |-> 0]

NoContext ==
    [flag_reg |-> Zero64, ip |-> Zero64, cr8 |-> Zero64, irql |-> 0,
     vm_continue |-> TRUE]

NoStop == [code |-> "", p1 |-> Zero64, p2 |-> Zero64, p3 |-> Zero64]

NoPrev == [wrote |-> FALSE, rcx |-> Zero64, value |-> Zero64]

InitWith(fixed) ==
    /\ pc = "guest"
    /\ gp_regs = [r \in RegisterSet |-> Zero64]
    /\ vmcs = InitVmcs
    /\ hw = InitHw(fixed)
    /\ ctx = NoContext
    /\ stop = NoStop
    /\ entry = [gp_regs |-> [r \in RegisterSet |-> Zero64], vmcs |-> InitVmcs,
                hw |-> InitHw(fixed)]
    /\ prev = NoPrev
    /\ log = <<>>

NoCall == [function |-> ""]

\* kVmmpEnableRecordVmExit is false: nothing is recorded
NoHistory == [enabled |-> FALSE]

\* the driver is loaded and virtualization is on
NoDriver == [pc |-> "loaded"]

\* one processor: the variables above are its state
Uniprocessor ==
    /\ cpus = <<>> /\ tlb = {} /\ call = NoCall
    /\ history = NoHistory /\ driver = NoDriver

Init == InitWith(TypicalFixed) /\ Uniprocessor

----------------------------------------------------------------------------
(* What the processor delivers with a VM exit *)

\* the largest basic exit reason the exits of the model carry
MaxExitReason == 56

ExitReasons == 0..MaxExitReason

InstLens == {2, MaxInstLen}

\* RFLAGS at exit: nothing set, TF set, and CF PF ZF SF DF OF set
PlainFlags == Nat64(514)        \* 0x202
TrapFlags == Nat64(770)         \* 0x302
BusyFlags == Nat64(3783)        \* 0xEC7
GuestFlags == {PlainFlags, TrapFlags, BusyFlags}

GuestCpls == {0, 3}

\* IRQL of the guest at exit: PASSIVE_LEVEL, DISPATCH_LEVEL, a device level
GuestIrqls == {0, DISPATCH_LEVEL, 5}

\* guest RIP at exit: a kernel address, and the last bytes of the address space
GuestRips == {U64(65535, 63488, 4660, 22136), U64(65535, 65535, 65535, 65534)}

GuestRsp == U64(65535, 64000, 1, 65280)

Value64 == U64(4660, 22136, 39612, 57072)       \* 0x123456789ABCDEF0
Value32 == U64(0, 0, 32773, 51)                 \* 0x80050033
ValueTop == U64(32768, 0, 26, 49152)            \* bit 63 set
ValueOnes == U64(65535, 65535, 65535, 65535)
JunkValue == U64(0, 0, 47806, 51966)            \* 0xBABECAFE
ValueReserved == U64(0, 0, 1, 61455)            \* 0x1F00F

BaseRegs ==
    [r \in RegisterSet |->
        CASE r = "si" -> GuestBuffer
          [] r = "di" -> GuestBuffer
          [] r = "sp" -> JunkValue
          [] r = "bx" -> Value32
          [] OTHER -> Zero64]

NoFields == [f \in {} |-> Zero64]

\* one exit: its reason, qualification, instruction information, the guest
\* registers, and guest-state fields the exit depends on
Base(reason, qualification, instruction_info, regs, guest) ==
    [reason |-> reason, qualification |-> qualification,
     instruction_info |-> instruction_info, regs |-> regs, guest |-> guest]

\* MovCrQualification: control_register [0:3], access_type [4:5], gp_register [8:11]
CrQual(control_register, access_type, gp_register) ==
    Nat64(control_register + 16 * access_type + 256 * gp_register)

\* MovDrQualification: debugl_register [0:2], direction [4], gp_register [8:11]
DrQual(debugl_register, direction, gp_register) ==
    Nat64(debugl_register + 16 * direction + 256 * gp_register)

\* IoInstQualification: size_of_access [0:2], direction [3], string [4], rep [5],
\* port_number [16:31]
IoQual(size_of_access, direction, string_instruction, rep_prefixed, port_number) ==
    U64(0, 0, port_number,
        size_of_access + 8 * direction + 16 * string_instruction + 32 * rep_prefixed)

\* GdtrOrIdtrInstInformation / LdtrOrTrInstInformation: a memory operand
\* [rsi] in DS with 64-bit addressing, or the register operand register1
InstInfo(register_access, register1, identity) ==
    Nat64(8 * register1 + 128 * 2 + 1024 * register_access + 32768 * 3
          + 4194304 + 8388608 * 6 + 268435456 * identity)

\* VmExitInterruptionInformationField of an exception or NMI exit
IntrFields(interruption_type, vector, error_code_valid) ==
    [f \in {"kVmExitIntrInfo", "kVmExitIntrErrorCode"} |->
        IF f = "kVmExitIntrInfo"
        THEN U64(0, 0, 32768, vector + 256 * interruption_type + 2048 * error_code_valid)
        ELSE Nat64(2)]

\* guest DR7 with or without GD, guest CR4 with or without DE
DrFields(gd, de) ==
    [f \in {"kGuestDr7", "kGuestCr4"} |->
        IF f = "kGuestDr7" THEN Nat64(1024 + 8192 * gd)
        ELSE Nat64(9968 + 8 * de)]

ReasonScenarios(r) ==
    CASE r = VmxExitReason.kExceptionOrNmi ->
            {Base(r, GuestBuffer, Zero64, BaseRegs, IntrFields(e[1], e[2], e[3])) :
                e \in {<<3, 14, 1>>, <<3, 13, 1>>, <<6, 3, 0>>, <<3, 1, 0>>,
                       <<6, 4, 0>>, <<2, 2, 0>>}}
      [] r = VmxExitReason.kCpuid ->
            {Base(r, Zero64, Zero64, [BaseRegs EXCEPT !["ax"] = Nat64(leaf)], NoFields) :
                leaf \in {0, 1, 7}}
      [] r = VmxExitReason.kCrAccess ->
            {Base(r, CrQual(q[1], q[2], q[3]), Zero64,
                  [BaseRegs EXCEPT !["ax"] = ValueTop], NoFields) :
                q \in {0, 2, 3, 4, 8} \X {0, 1, 2} \X {0, 3, 4}}
      [] r = VmxExitReason.kDrAccess ->
            {Base(r, DrQual(q[1], q[2], 3), Zero64,
                  [BaseRegs EXCEPT !["bx"] = q[3]], DrFields(q[4], q[5])) :
                q \in {0, 4, 5, 6, 7} \X {0, 1} \X {Value32, Value64, ValueReserved}
                      \X {0, 1} \X {0, 1}}
            \cup {Base(r, DrQual(d, 1, 4), Zero64, BaseRegs, DrFields(0, 0)) :
                     d \in {0, 6, 7}}
      [] r = VmxExitReason.kIoInstruction ->
            {Base(r, IoQual(q[1], q[2], q[3], q[4], 1016), Zero64,
                  [BaseRegs EXCEPT !["cx"] = q[5], !["ax"] = Value64], NoFields) :
                q \in {0, 1, 2, 3} \X {0, 1} \X {0, 1} \X {0, 1}
                      \X {Nat64(2), U64(0, 1, 0, 2)}}
      [] r \in {VmxExitReason.kMsrRead, VmxExitReason.kMsrWrite} ->
            {Base(r, Zero64, Zero64,
                  [BaseRegs EXCEPT !["cx"] = cx, !["ax"] = Low32(Value64),
                                   !["dx"] = High32(Value64)], NoFields) :
                cx \in {Msr.kIa32SysenterCs, U64(0, 0, 0, 16), U64(0, 0, 0, 8192)}}
      [] r = VmxExitReason.kGdtrOrIdtrAccess ->
            {Base(r, Zero64, InstInfo(0, 0, identity), BaseRegs, NoFields) :
                identity \in 0..3}
      [] r = VmxExitReason.kLdtrOrTrAccess ->
            {Base(r, Zero64, InstInfo(q[1], 3, q[2]),
                  [BaseRegs EXCEPT !["bx"] = Nat64(64)], NoFields) :
                q \in {0, 1} \X (0..3)}
      [] r = VmxExitReason.kVmcall ->
            {Base(r, Zero64, Zero64,
                  [BaseRegs EXCEPT !["cx"] = q[1], !["dx"] = q[2]], NoFields) :
                q \in {HypercallNumber.kTerminateVmm, HypercallNumber.kPingVmm,
                       HypercallNumber.kGetSharedProcessorData, Zero64,
                       Join32(Nat64(1), HypercallNumber.kTerminateVmm),
                       Add64(HypercallNumber.kMaximumHypercallNumber, Nat64(1))}
                      \X {GuestBuffer, Value64}}
      [] r \in {VmxExitReason.kInvlpg, VmxExitReason.kEptViolation,
                VmxExitReason.kEptMisconfig} ->
            {Base(r, GuestBuffer, Zero64, BaseRegs, NoFields)}
      [] OTHER -> {Base(r, q, Zero64, BaseRegs, NoFields) : q \in {Zero64, Value64}}

Scenarios == UNION {ReasonScenarios(r) : r \in ExitReasons}

\* the access rights of the guest SS: a writable data segment with DPL cpl
SsArBytes(cpl) == Nat64(147 + 32 * cpl)

\* the VMCS fields the processor stores on the exit
ExitFields(b, flags, cpl, len, rip) ==
    [f \in {"kVmExitReason", "kExitQualification", "kVmxInstructionInfo",
            "kVmExitInstructionLen", "kGuestPhysicalAddress",
            "kGuestRip", "kGuestRsp", "kGuestRflags", "kGuestSsArBytes"} |->
        CASE f = "kVmExitReason" -> Nat64(b.reason)
          [] f = "kExitQualification" -> b.qualification
          [] f = "kVmxInstructionInfo" -> b.instruction_info
          [] f = "kVmExitInstructionLen" -> Nat64(len)
          [] f = "kGuestPhysicalAddress" -> b.qualification
          [] f = "kGuestRip" -> rip
          [] f = "kGuestRsp" -> GuestRsp
          [] f = "kGuestRflags" -> flags
          [] OTHER -> SsArBytes(cpl)]

\* the machine the handler works on, and the state as the handler left it
Machine ==
    [gp_regs |-> gp_regs, vmcs |-> vmcs, hw |-> hw, ctx |-> ctx,
     stop |-> stop, log |-> log]

\* the VMCS and the host state as the exit leaves them
ExitVmcs(old_vmcs, b, flags, cpl, len, rip) ==
    (b.guest @@ ExitFields(b, flags, cpl, len, rip))
    @@ [old_vmcs EXCEPT !["kVmEntryIntrInfoField"] = SetBit(@, 31, 0)]

ExitHw(old_hw, irql) == [old_hw EXCEPT !.irql = irql, !.cr8 = Nat64(irql)]

\* The processor leaves the guest: it stores the exit information and the
\* guest state in the VMCS, clears the valid bit of the VM-entry
\* interruption-information field, and enters the trampoline, which pushes
\* the guest registers. On x64 the IRQL is what CR8 holds.
DeliverExit(b, flags, cpl, len, irql, rip) ==
    LET new_vmcs == ExitVmcs(vmcs, b, flags, cpl, len, rip)
        new_hw == ExitHw(hw, irql)
    IN  /\ gp_regs' = b.regs
        /\ vmcs' = new_vmcs
        /\ hw' = new_hw
        /\ ctx' = NoContext
        /\ entry' = [gp_regs |-> b.regs, vmcs |-> new_vmcs, hw |-> new_hw]
        /\ log' = <<>>
        /\ pc' = "exit"
        /\ UNCHANGED <<stop, cpus, tlb, call, history, driver>>

\* a VM exit of any reason, out of the state bring-up left
VmExit ==
    /\ pc = "guest"
    /\ \E b \in Scenarios, flags \in GuestFlags, cpl \in GuestCpls,
          len \in InstLens, irql \in GuestIrqls, rip \in GuestRips :
            DeliverExit(b, flags, cpl, len, irql, rip)
    /\ UNCHANGED prev

\* AsmVmmEntryPoint calls VmmVmExitHandler, which runs to its return or to
\* the bug check
VmmVmExitHandler ==
    /\ pc = "exit"
    /\ \E m \in {VmmVmExitHandlerBody(Machine)} :
           /\ gp_regs' = m.gp_regs
           /\ vmcs' = m.vmcs
           /\ hw' = m.hw
           /\ ctx' = m.ctx
           /\ stop' = m.stop
           /\ log' = m.log
           /\ pc' = IF Halted(m) THEN "halted" ELSE "returned"
    /\ UNCHANGED <<entry, prev, cpus, tlb, call, history, driver>>

Next == VmExit \/ VmmVmExitHandler

Spec == Init /\ [][Next]_vars

----------------------------------------------------------------------------
(* What an exit was, read from the snapshot taken when it was delivered *)

EntryReason == entry.vmcs["kVmExitReason"][4]
EntryRip == entry.vmcs["kGuestRip"]
EntryInstLen == entry.vmcs["kVmExitInstructionLen"]
EntryFlags == entry.vmcs["kGuestRflags"]
EntryCpl == Bits(entry.vmcs["kGuestSsArBytes"], 5, 2)
EntryQualification == entry.vmcs["kExitQualification"]

\* the handler has run to its return or to the bug check
Handled == pc \in {"returned", "halted"}

\* positions of the log where the named VMCS field was written
VmWrites(field) ==
    {i \in DOMAIN log : log[i].op = "vmwrite" /\ log[i].f = field}

\* positions of the log where an operation of one of the kinds was performed
Performed(ops) == {i \in DOMAIN log : log[i].op \in ops}

\* the reasons that have a case in the switch of VmmpHandleVmExit
HandledReasons ==
    {VmxExitReason.kExceptionOrNmi, VmxExitReason.kTripleFault,
     VmxExitReason.kCpuid, VmxExitReason.kInvd, VmxExitReason.kInvlpg,
     VmxExitReason.kRdtsc, VmxExitReason.kCrAccess, VmxExitReason.kDrAccess,
     VmxExitReason.kIoInstruction, VmxExitReason.kMsrRead,
     VmxExitReason.kMsrWrite, VmxExitReason.kMonitorTrapFlag,
     VmxExitReason.kGdtrOrIdtrAccess, VmxExitReason.kLdtrOrTrAccess,
     VmxExitReason.kEptViolation, VmxExitReason.kEptMisconfig,
     VmxExitReason.kVmcall, VmxExitReason.kRdtscp, VmxExitReason.kXsetbv}
    \cup VmxInstructionReasons

\* the reasons whose handler advances the instruction pointer on every path
AdvancingReasons ==
    {VmxExitReason.kCpuid, VmxExitReason.kInvd, VmxExitReason.kInvlpg,
     VmxExitReason.kRdtsc, VmxExitReason.kRdtscp, VmxExitReason.kXsetbv,
     VmxExitReason.kMsrRead, VmxExitReason.kMsrWrite,
     VmxExitReason.kGdtrOrIdtrAccess, VmxExitReason.kLdtrOrTrAccess}
    \cup VmxInstructionReasons

\* the value the source register of a MOV to CRx held; the slot of RSP is
\* filled from the VMCS before the dispatch
SourceRegister(register_used) ==
    IF register_used = "sp" THEN entry.vmcs["kGuestRsp"]
    ELSE entry.gp_regs[register_used]

EntryIsCrAccess == EntryReason = VmxExitReason.kCrAccess

EntryIsMoveToCr(control_register) ==
    /\ EntryIsCrAccess
    /\ Bits(EntryQualification, 4, 2) = 0
    /\ Bits(EntryQualification, 0, 4) = control_register

EntryCrRegister == VmmpSelectRegister(Bits(EntryQualification, 8, 4))

----------------------------------------------------------------------------
(* Instruction pointer, verdict, fatal exits, IRQL and CR8 *)

\* C1: in every exit the guest RIP is written at most once; when the handler
\* returns after writing it, the VMCS guest RIP is the RIP read at the exit
\* plus the VM-exit instruction length (modulo 2^64), and every exit whose
\* handler advances on all its paths did write it, whatever the reason and
\* the guest flags.
C1_RipAdvancedOnce ==
    Handled =>
        /\ Cardinality(VmWrites("kGuestRip")) <= 1
        /\ (pc = "returned" /\ EntryReason \in AdvancingReasons)
                => VmWrites("kGuestRip") # {}
        /\ (pc = "returned" /\ VmWrites("kGuestRip") # {})
                => vmcs["kGuestRip"] = Add64(EntryRip, EntryInstLen)
        /\ VmWrites("kGuestRip") = {} => vmcs["kGuestRip"] = EntryRip

\* a CPUID exit with TF set at the top of the address space has returned with
\* the RIP wrapped around
C1_Witness ==
    /\ pc = "returned"
    /\ EntryReason = VmxExitReason.kCpuid
    /\ Flag(EntryFlags, "tf")
    /\ EntryRip = U64(65535, 65535, 65535, 65534)
    /\ EntryInstLen = Nat64(MaxInstLen)
    /\ vmcs["kGuestRip"] = Nat64(MaxInstLen - 2)
    /\ Cardinality(VmWrites("kGuestRip")) = 1

\* C2: the handler returns the terminate verdict exactly when the exit was a
\* VMCALL whose hypercall number (the low 32 bits of RCX) is kTerminateVmm
\* and the guest ran at CPL 0; every other returning exit returns continue.
C2_VerdictIsTerminateOnlyForTermination ==
    pc = "returned" =>
        (~ctx.vm_continue <=>
            /\ EntryReason = VmxExitReason.kVmcall
            /\ Low32(entry.gp_regs["cx"]) = HypercallNumber.kTerminateVmm
            /\ EntryCpl = 0)

\* the termination hypercall from ring 0 has returned terminate
C2_Witness ==
    /\ pc = "returned"
    /\ EntryReason = VmxExitReason.kVmcall
    /\ Low32(entry.gp_regs["cx"]) = HypercallNumber.kTerminateVmm
    /\ EntryCpl = 0
    /\ ~ctx.vm_continue

\* C3: an exit whose reason is a triple fault, a monitor-trap-flag exit, an
\* EPT misconfiguration or a reason without a case in the switch ends in the
\* bug check: no verdict is returned and neither KeLowerIrql nor the CR8
\* write of the return path is executed.
C3_FatalReasonsNeverReturn ==
    (/\ Handled
     /\ \/ EntryReason \in {VmxExitReason.kTripleFault,
                            VmxExitReason.kMonitorTrapFlag,
                            VmxExitReason.kEptMisconfig}
        \/ EntryReason \notin HandledReasons)
    => /\ pc = "halted"
       /\ Halted(Machine)
       /\ Performed({"bugcheck"}) # {}
       /\ Performed({"KeLowerIrql", "writecr8"}) = {}

\* a monitor-trap-flag exit taken at PASSIVE_LEVEL has halted the system at
\* DISPATCH_LEVEL
C3_Witness ==
    /\ pc = "halted"
    /\ EntryReason = VmxExitReason.kMonitorTrapFlag
    /\ entry.hw.irql = 0
    /\ hw.irql = DISPATCH_LEVEL
    /\ stop.code = "kUnexpectedVmExit"

----------------------------------------------------------------------------
(* RDMSR and WRMSR exits, and a WRMSR read back *)

\* guest RCX of the MSR exits: the indices moved to the VMCS, other indices
\* inside the ranges, indices outside them, and indices under upper bits
MsrRcxValues ==
    {Msr.kIa32SysenterCs, Msr.kIa32SysenterEsp, Msr.kIa32SysenterEip,
     Msr.kIa32Debugctl, Msr.kIa32FsBase, Msr.kIa32GsBase,
     Zero64, U64(0, 0, 0, 16), U64(0, 0, 0, 8191),
     U64(0, 0, 49152, 0), U64(0, 0, 49152, 128), U64(0, 0, 49152, 8191),
     ToleratedMsr,
     U64(0, 0, 0, 8192), U64(0, 0, 49151, 65535), U64(0, 0, 49152, 8192),
     U64(0, 0, 16384, 239), U64(0, 0, 16384, 241), U64(0, 0, 65535, 65535),
     U64(0, 1, 0, 16), U64(0, 1, 0, 372), U64(32768, 0, 49152, 256),
     U64(65535, 65535, 16384, 240), U64(0, 1, 0, 8192)}

\* the values written, EDX:EAX
MsrValues == {Value64, ValueOnes, Nat64(1)}

\* RAX and RDX of a WRMSR of value: the halves, under clear or set upper bits
MsrWriteRegs(cx, value, upper) ==
    [BaseRegs EXCEPT !["cx"] = cx,
                     !["ax"] = Join32(upper, Low32(value)),
                     !["dx"] = Join32(upper, High32(value))]

MsrScenarios ==
    {Base(VmxExitReason.kMsrRead, Zero64, Zero64,
          [BaseRegs EXCEPT !["cx"] = cx, !["ax"] = JunkValue, !["dx"] = JunkValue],
          NoFields) : cx \in MsrRcxValues}
    \cup
    {Base(VmxExitReason.kMsrWrite, Zero64, Zero64,
          MsrWriteRegs(q[1], q[2], q[3]), NoFields) :
        q \in MsrRcxValues \X MsrValues \X {Zero64, Low32(JunkValue)}}

\* an RDMSR or WRMSR exit; both instructions are two bytes long
MsrExit ==
    /\ pc = "guest"
    /\ \E b \in MsrScenarios, flags \in GuestFlags, cpl \in GuestCpls :
            DeliverExit(b, flags, cpl, 2, 0, U64(65535, 63488, 4660, 22136))
    /\ prev' = NoPrev

\* the guest, resumed after a WRMSR exit, executes RDMSR with the same RCX
\* at once; RAX and RDX still hold the halves of the value or were cleared
\* to other contents by instructions that do not exit
MsrReadBack ==
    /\ pc = "returned"
    /\ ctx.vm_continue
    /\ ~prev.wrote
    /\ entry.vmcs["kVmExitReason"][4] = VmxExitReason.kMsrWrite
    /\ \E flags \in GuestFlags, clobber \in BOOLEAN :
         LET regs == IF clobber
                     THEN [gp_regs EXCEPT !["ax"] = JunkValue, !["dx"] = JunkValue]
                     ELSE gp_regs
         IN  DeliverExit(Base(VmxExitReason.kMsrRead, Zero64, Zero64, regs, NoFields),
                         flags, Bits(entry.vmcs["kGuestSsArBytes"], 5, 2), 2,
                         hw.irql, vmcs["kGuestRip"])
    /\ prev' = [wrote |-> TRUE, rcx |-> entry.gp_regs["cx"],
                value |-> Join32(Low32(entry.gp_regs["dx"]),
                                 Low32(entry.gp_regs["ax"]))]

NextMsr == MsrExit \/ MsrReadBack \/ VmmVmExitHandler

SpecMsr == Init /\ [][NextMsr]_vars

EntryIsMsr == EntryReason \in {VmxExitReason.kMsrRead, VmxExitReason.kMsrWrite}

\* the MSR index the instruction names: ECX
EntryEcx == Low32(entry.gp_regs["cx"])

\* an index outside 0..0x1FFF, outside 0xC0000000..0xC0001FFF and not 0x400000F0
DisallowedIndex(index) ==
    /\ ~Le64(index, U64(0, 0, 0, 8191))
    /\ ~(Le64(U64(0, 0, 49152, 0), index) /\ Le64(index, U64(0, 0, 49152, 8191)))
    /\ index # U64(0, 0, 16384, 240)

\* SYSENTER_CS, SYSENTER_ESP, SYSENTER_EIP, DEBUGCTL, FS_BASE, GS_BASE
MappedIndices ==
    {U64(0, 0, 0, 372), U64(0, 0, 0, 373), U64(0, 0, 0, 374), U64(0, 0, 0, 473),
     U64(0, 0, 49152, 256), U64(0, 0, 49152, 257)}

\* the VMCS guest-state fields that back an MSR
MsrBackedFields ==
    {"kGuestSysenterCs", "kGuestSysenterEsp", "kGuestSysenterEip",
     "kGuestIa32Debugctl", "kGuestFsBase", "kGuestGsBase"}

\* accesses of a real MSR, and accesses of an MSR-backed VMCS field
MsrAccesses == Performed({"rdmsr", "wrmsr"})
MsrFieldAccesses ==
    {i \in DOMAIN log : log[i].op \in {"vmread", "vmwrite"} /\ log[i].f \in MsrBackedFields}

\* the event pending for the guest is #GP with error code 0x6A
PendingGp ==
    /\ Bit(vmcs["kVmEntryIntrInfoField"], 31) = 1
    /\ Bits(vmcs["kVmEntryIntrInfoField"], 8, 3) = 3
    /\ Bits(vmcs["kVmEntryIntrInfoField"], 0, 8) = 13
    /\ Bit(vmcs["kVmEntryIntrInfoField"], 11) = 1
    /\ vmcs["kVmEntryExceptionErrorCode"] = Nat64(106)

\* the handler injected #GP during the exit
GpInjected ==
    \E i \in VmWrites("kVmEntryIntrInfoField") :
        Bits(log[i].v, 0, 8) = 13 /\ Bits(log[i].v, 8, 3) = 3

\* C5: when an RDMSR or WRMSR exit with a disallowed index returns, the
\* event pending for the guest is #GP: the VM-entry interruption information
\* is valid, a hardware exception, vector 13, with error-code delivery, and
\* the entry error code is 0x6A, whatever the guest flags, TF included.
C5_RejectedAccessPendsGp ==
    (pc = "returned" /\ EntryIsMsr /\ DisallowedIndex(EntryEcx)) => PendingGp

\* RDMSR of index 0x2000 with TF set has returned, and the pending event is
\* #DB without an error code
C5_Witness ==
    /\ pc = "returned"
    /\ EntryReason = VmxExitReason.kMsrRead
    /\ entry.gp_regs["cx"] = U64(0, 0, 0, 8192)
    /\ Flag(EntryFlags, "tf")
    /\ GpInjected
    /\ vmcs["kVmEntryIntrInfoField"] = InterruptionInformation(3, 1, FALSE)

\* C6: an RDMSR or WRMSR exit with a disallowed index reads and writes no
\* real MSR and no VMCS field that backs an MSR, and leaves RAX and RDX as
\* they were.
C6_RejectedAccessTouchesNothing ==
    (Handled /\ EntryIsMsr /\ DisallowedIndex(EntryEcx)) =>
        /\ MsrAccesses = {}
        /\ MsrFieldAccesses = {}
        /\ hw.msr = entry.hw.msr
        /\ \A f \in MsrBackedFields : vmcs[f] = entry.vmcs[f]
        /\ gp_regs["ax"] = entry.gp_regs["ax"]
        /\ gp_regs["dx"] = entry.gp_regs["dx"]

\* WRMSR of index 0xC0002000 has returned rejected
C6_Witness ==
    /\ pc = "returned"
    /\ EntryReason = VmxExitReason.kMsrWrite
    /\ entry.gp_regs["cx"] = U64(0, 0, 49152, 8192)
    /\ entry.gp_regs["ax"] = Low32(Value64)
    /\ GpInjected
    /\ MsrAccesses = {}

\* C7: an RDMSR or WRMSR exit is rejected with #GP exactly when ECX is a
\* disallowed index; an allowed index is serviced without #GP whatever the
\* upper 32 bits of RCX hold.
C7_RejectedExactlyWhenEcxDisallowed ==
    (Handled /\ EntryIsMsr) => (GpInjected <=> DisallowedIndex(EntryEcx))

\* RDMSR with RCX = 0x1_0000_0010, whose ECX is the allowed index 0x10, has
\* returned rejected
C7_Witness ==
    /\ pc = "returned"
    /\ EntryReason = VmxExitReason.kMsrRead
    /\ entry.gp_regs["cx"] = U64(0, 1, 0, 16)
    /\ ~DisallowedIndex(EntryEcx)
    /\ GpInjected
    /\ MsrAccesses = {}

\* C8: an RDMSR that reads back the WRMSR of a mapped index returns the
\* value written in EDX:EAX; no exit of a mapped index accesses a real MSR;
\* every exit of another allowed index accesses the real MSR of that index
\* and no VMCS field that backs an MSR.
C8_WriteThenReadReturnsValue ==
    /\ (pc = "returned" /\ prev.wrote /\ Low32(prev.rcx) \in MappedIndices)
            => Join32(Low32(gp_regs["dx"]), Low32(gp_regs["ax"])) = prev.value
    /\ (Handled /\ EntryIsMsr /\ EntryEcx \in MappedIndices)
            => MsrAccesses = {}
    /\ (Handled /\ EntryIsMsr /\ ~DisallowedIndex(EntryEcx)
                /\ EntryEcx \notin MappedIndices)
            => /\ \E i \in MsrAccesses : log[i].v = EntryEcx
               /\ MsrFieldAccesses = {}

\* WRMSR then RDMSR with RCX = 0x1_0000_0174, whose ECX is SYSENTER_CS: the
\* read-back has returned with EDX:EAX other than the value written
C8_Witness ==
    /\ pc = "returned"
    /\ prev.wrote
    /\ prev.rcx = U64(0, 1, 0, 372)
    /\ Low32(prev.rcx) \in MappedIndices
    /\ Join32(Low32(gp_regs["dx"]), Low32(gp_regs["ax"])) # prev.value

----------------------------------------------------------------------------
(* MOV to and from CRx, exit after exit *)

\* what IA32_VMX_CR0_FIXED0/1 and IA32_VMX_CR4_FIXED0/1 report: a processor
\* without and with unrestricted guest, and one that fixes more CR4 bits
FixedChoices ==
    {TypicalFixed,
     [TypicalFixed EXCEPT !.cr0_fixed0 = Nat64(32)],
     [TypicalFixed EXCEPT !.cr4_fixed0 = Nat64(8224),
                          !.cr4_fixed1 = U64(0, 0, 23, 10239)]}

InitCr == (\E fixed \in FixedChoices : InitWith(fixed)) /\ Uniprocessor

\* what the source register holds
CrValues == {Value32, ValueTop, ValueOnes}

\* MOV to CRx from RAX with each value and from RSP, MOV from CRx, CLTS, LMSW
CrScenarios ==
    {Base(VmxExitReason.kCrAccess, CrQual(q[1], 0, 0), Zero64,
          [BaseRegs EXCEPT !["ax"] = q[2]], NoFields) :
        q \in {0, 2, 3, 4, 8} \X CrValues}
    \cup
    {Base(VmxExitReason.kCrAccess, CrQual(cr, 0, 4), Zero64, BaseRegs,
          [f \in {"kGuestRsp"} |-> ValueTop]) : cr \in {0, 2, 3, 4, 8}}
    \cup
    {Base(VmxExitReason.kCrAccess, CrQual(q[1], q[2], 0), Zero64, BaseRegs, NoFields) :
        q \in {<<3, 1>>, <<8, 1>>, <<0, 1>>, <<0, 2>>, <<0, 3>>}}

\* a control-register exit, the first one or one after the guest was resumed
CrExit ==
    /\ \/ pc = "guest"
       \/ pc = "returned" /\ ctx.vm_continue
    /\ \E b \in CrScenarios :
            DeliverExit(b, PlainFlags, 0, MaxInstLen, 0,
                        U64(65535, 63488, 4660, 22136))
    /\ UNCHANGED prev

NextCr == CrExit \/ VmmVmExitHandler

SpecCr == InitCr /\ [][NextCr]_vars

\* C9: after a MOV to CR3 the VMCS guest CR3 has bit 63 of the guest CR3
\* stored before the exit and every other bit of the source register:
\* committed = (requested & ~(1 << 63)) | (previous & (1 << 63)). The stored
\* guest CR3 never has bit 63 set.
C9_Cr3KeepsBit63 ==
    /\ Bit(vmcs["kGuestCr3"], 63) = 0
    /\ (pc = "returned" /\ EntryIsMoveToCr(3)) =>
          /\ vmcs["kGuestCr3"] =
                Or64(And64(SourceRegister(EntryCrRegister), Not64(U64(32768, 0, 0, 0))),
                     And64(entry.vmcs["kGuestCr3"], U64(32768, 0, 0, 0)))
          /\ Cardinality(VmWrites("kGuestCr3")) = 1

\* a MOV to CR3 of a value with bit 63 set, over a guest CR3 that an earlier
\* MOV to CR3 stored, has returned
C9_Witness ==
    /\ pc = "returned"
    /\ EntryIsMoveToCr(3)
    /\ SourceRegister(EntryCrRegister) = ValueTop
    /\ entry.vmcs["kGuestCr3"] = Value32
    /\ vmcs["kGuestCr3"] = U64(0, 0, 26, 49152)

\* the value in a VMCS field satisfies the fixed bits of the MSR pair, agrees
\* with the source register on the bits that are not fixed, and was written
\* to the field and to its read shadow in this exit
CommittedUnderFixedBits(field, shadow, fixed0, fixed1) ==
    LET v == vmcs[field]
        free == And64(fixed1, Not64(fixed0))
    IN  /\ Or64(And64(v, fixed1), fixed0) = v
        /\ And64(v, free) = And64(SourceRegister(EntryCrRegister), free)
        /\ vmcs[shadow] = v
        /\ \E i \in VmWrites(field) : log[i].v = v
        /\ \E i \in VmWrites(shadow) : log[i].v = v

\* C10: after a MOV to CR0 or CR4 the value v in the VMCS guest CR0 / CR4
\* satisfies (v & fixed1) | fixed0 = v for the IA32_VMX_CRx_FIXED0/1 MSRs of
\* that register, and the read shadow of the register holds the same v.
C10_Cr0Cr4UnderFixedBits ==
    /\ (pc = "returned" /\ EntryIsMoveToCr(0)) =>
          CommittedUnderFixedBits("kGuestCr0", "kCr0ReadShadow",
              hw.msr[Msr.kIa32VmxCr0Fixed0], hw.msr[Msr.kIa32VmxCr0Fixed1])
    /\ (pc = "returned" /\ EntryIsMoveToCr(4)) =>
          CommittedUnderFixedBits("kGuestCr4", "kCr4ReadShadow",
              hw.msr[Msr.kIa32VmxCr4Fixed0], hw.msr[Msr.kIa32VmxCr4Fixed1])

\* a MOV to CR4 of all ones has returned with the bits cleared that the
\* processor fixes to zero, after a MOV to CR0 of a value without PE and NE
\* that was committed with them set
C10_Witness ==
    /\ pc = "returned"
    /\ EntryIsMoveToCr(4)
    /\ SourceRegister(EntryCrRegister) = ValueOnes
    /\ vmcs["kGuestCr4"] = hw.msr[Msr.kIa32VmxCr4Fixed1]
    /\ vmcs["kCr4ReadShadow"] = vmcs["kGuestCr4"]
    /\ vmcs["kGuestCr0"] = U64(0, 0, 32794, 49185)
    /\ vmcs["kCr0ReadShadow"] = vmcs["kGuestCr0"]

----------------------------------------------------------------------------
(* Guest memory and the CR3 window *)

\* positions of the log where the host read or wrote through a guest
\* virtual address
GuestMemoryAccesses == Performed({"memread", "memwrite"})

\* the CR3 of the guest's address space as the handlers compute it
EntryGuestCr3 == VmmpGetKernelCr3(entry)

\* the access at position i lies between a load of the guest CR3 and, once
\* the handler has returned, the load of the CR3 the host entered with
InsideGuestCr3Window(i) ==
    /\ log[i].cr3 = EntryGuestCr3
    /\ \E j \in 1..(i - 1) :
          /\ log[j].op = "writecr3"
          /\ log[j].v = EntryGuestCr3
          /\ \A k \in (j + 1)..(i - 1) : log[k].op # "writecr3"
    /\ pc = "returned" =>
          \E j \in (i + 1)..Len(log) :
              log[j].op = "writecr3" /\ log[j].v = entry.hw.cr3

\* C11: every access of the host through a guest virtual address (a
\* pseudo-descriptor or selector operand, the guest GDT, a string I/O buffer,
\* the context pointer of a VMCALL) is performed with the guest CR3 loaded,
\* after the handler's switch to it and before its restore of the host CR3.
C11_GuestAccessInsideCr3Window ==
    \A i \in GuestMemoryAccesses : InsideGuestCr3Window(i)

\* the VMCALL that asks for the shared processor data has returned after
\* the store through its context pointer, done with the host CR3 loaded
C11_Witness ==
    /\ pc = "returned"
    /\ EntryReason = VmxExitReason.kVmcall
    /\ Low32(entry.gp_regs["cx"]) = HypercallNumber.kGetSharedProcessorData
    /\ \E i \in GuestMemoryAccesses :
          /\ log[i].op = "memwrite"
          /\ log[i].v = entry.gp_regs["dx"]
          /\ log[i].cr3 = entry.hw.cr3
          /\ log[i].cr3 # EntryGuestCr3
    /\ Performed({"writecr3"}) = {}

\* positions of the log where a CR3 other than the one the host entered
\* with was loaded
GuestCr3Loads ==
    {i \in Performed({"writecr3"}) : log[i].v # entry.hw.cr3}

\* C12: when the handler returns, CR3 is the host CR3 it was entered with;
\* every load of the guest CR3 is followed by a load of that host CR3 before
\* the guest RIP is written; the GDTR/IDTR, LDTR/TR and port I/O handlers do
\* switch to the guest CR3.
C12_HostCr3RestoredOnReturn ==
    pc = "returned" =>
        /\ hw.cr3 = entry.hw.cr3
        /\ \A i \in GuestCr3Loads :
              \E j \in (i + 1)..Len(log) :
                  /\ log[j].op = "writecr3"
                  /\ log[j].v = entry.hw.cr3
                  /\ \A k \in VmWrites("kGuestRip") : j < k
        /\ EntryReason \in {VmxExitReason.kGdtrOrIdtrAccess,
                            VmxExitReason.kLdtrOrTrAccess,
                            VmxExitReason.kIoInstruction}
              => GuestCr3Loads # {}

\* a REP INS has returned: the guest CR3 was loaded for the transfer into
\* the guest buffer and the host CR3 is loaded again
C12_Witness ==
    /\ pc = "returned"
    /\ EntryReason = VmxExitReason.kIoInstruction
    /\ Performed({"ins"}) # {}
    /\ \E i \in GuestCr3Loads : log[i].v = EntryGuestCr3
    /\ \E i \in GuestMemoryAccesses : log[i].cr3 = EntryGuestCr3
    /\ hw.cr3 = entry.hw.cr3
    /\ hw.cr3 # EntryGuestCr3
    /\ VmWrites("kGuestRip") # {}

----------------------------------------------------------------------------
(* A failed VMRESUME or VMXOFF *)

\* VmmVmxFailureHandler: zf is all_regs->flags.fields.zf, set on VMfailValid
VmmVmxFailureHandlerBody(m, zf) ==
    BugCheck(m, "kCriticalVmxInstructionFailure",
             IF zf THEN UtilVmRead(m, "kVmInstructionError") ELSE Zero64,
             UtilVmRead(m, "kGuestRip"), Zero64)

\* VM-instruction errors the processor reports: VM entry with invalid
\* control fields, VM entry with invalid host-state fields
VmInstructionErrors == {Nat64(7), Nat64(8)}

\* the VMRESUME or VMXOFF that follows the return of VmmVmExitHandler fails:
\* with VMfailValid the processor stores the error number in the VMCS and
\* sets ZF, with VMfailInvalid it sets CF only; AsmVmmEntryPoint calls
\* VmmVmxFailureHandler, which runs to the bug check
VmmVmxFailureHandler ==
    /\ pc = "returned"
    /\ \E zf \in BOOLEAN, error \in VmInstructionErrors :
         \E m \in {VmmVmxFailureHandlerBody(
                     [Machine EXCEPT !.log = <<>>,
                                     !.vmcs["kVmInstructionError"] =
                                         IF zf THEN error ELSE @], zf)} :
            /\ vmcs' = m.vmcs
            /\ stop' = m.stop
            /\ log' = m.log
            /\ pc' = "failed"
    /\ UNCHANGED <<gp_regs, hw, ctx, entry, prev, cpus, tlb, call, history, driver>>

NextFatal == VmExit \/ VmmVmExitHandler \/ VmmVmxFailureHandler

SpecFatal == Init /\ [][NextFatal]_vars

\* the bug checks of the two fatal categories
FatalStops ==
    {i \in Performed({"bugcheck"}) :
        log[i].f \in {"kUnexpectedVmExit", "kTripleFaultVmExit",
                      "kCriticalVmxInstructionFailure"}}

\* C13: every bug check for an exit without a handler, a triple fault, a
\* monitor-trap-flag exit or a failed VMRESUME / VMXOFF is preceded, in the
\* same invocation, by the dump of the guest state.
C13_DumpBeforeFatalStop ==
    \A i \in FatalStops : \E j \in 1..(i - 1) : log[j].op = "dump"

\* VMRESUME has failed with VMfailValid after a CPUID exit, and the system
\* was halted without a dump of the guest state
C13_Witness ==
    /\ pc = "failed"
    /\ EntryReason = VmxExitReason.kCpuid
    /\ stop.code = "kCriticalVmxInstructionFailure"
    /\ stop.p1 = Nat64(7)
    /\ stop.p2 = vmcs["kGuestRip"]
    /\ FatalStops # {}
    /\ Performed({"dump"}) = {}

----------------------------------------------------------------------------
(* Invalidation before termination *)

\* positions of the log that belong to the return path of VmmVmExitHandler
RestoreOps == Performed({"KeLowerIrql", "writecr8"})

\* positions of the log that belong to the exit handler the dispatcher chose
HandlerOps ==
    {i \in DOMAIN log :
        log[i].op \notin {"KeRaiseIrqlToDpcLevel", "UtilInveptGlobal",
                          "UtilInvvpidAllContext", "KeLowerIrql", "writecr8"}}

\* C14: when the handler returns the terminate verdict, UtilInveptGlobal and
\* UtilInvvpidAllContext were each issued once in this invocation, after
\* every operation of the exit handler and before the IRQL and CR8 restore;
\* with the continue verdict no global EPT invalidation is issued.
C14_InvalidatedBeforeTerminate ==
    pc = "returned" =>
        IF ctx.vm_continue
        THEN Performed({"UtilInveptGlobal"}) = {}
        ELSE \E i, j \in DOMAIN log :
                /\ Performed({"UtilInveptGlobal"}) = {i}
                /\ Performed({"UtilInvvpidAllContext"}) = {j}
                /\ i < j
                /\ \A k \in HandlerOps : k < i
                /\ \A k \in RestoreOps : j < k
                /\ RestoreOps # {}

\* the termination VMCALL taken at PASSIVE_LEVEL has returned terminate: the
\* descriptor tables were loaded, then both invalidations were issued, then
\* the IRQL was lowered
C14_Witness ==
    /\ pc = "returned"
    /\ ~ctx.vm_continue
    /\ entry.hw.irql = 0
    /\ Performed({"lgdt"}) # {}
    /\ \E i \in Performed({"UtilInveptGlobal"}) :
          \E j \in Performed({"UtilInvvpidAllContext"}) :
              \E k \in Performed({"KeLowerIrql"}) : i < j /\ j < k

----------------------------------------------------------------------------
(* Debug registers *)

EntryIsDrAccess == EntryReason = VmxExitReason.kDrAccess

\* the trapped registers other than the slot of RSP, which VmmVmExitHandler
\* fills with the guest RSP of the VMCS on every exit
GuestRegistersUnchanged ==
    /\ \A r \in RegisterSet \ {"sp"} : gp_regs[r] = entry.gp_regs[r]
    /\ gp_regs["sp"] = entry.vmcs["kGuestRsp"]
    /\ vmcs["kGuestRsp"] = entry.vmcs["kGuestRsp"]

\* C15: a debug-register access exit taken at a guest CPL other than 0
\* returns with #GP pending with error code 0, with no debug register, no
\* VMCS guest DR7 and no guest general-purpose register changed, and with
\* the guest RIP not written.
C15_DrAccessOutsideRing0Faults ==
    (Handled /\ EntryIsDrAccess /\ EntryCpl # 0) =>
        /\ pc = "returned"
        /\ vmcs["kVmEntryIntrInfoField"] =
              InterruptionInformation(InterruptionType.kHardwareException,
                  InterruptionVector.kGeneralProtectionException, TRUE)
        /\ vmcs["kVmEntryExceptionErrorCode"] = Zero64
        /\ hw.dr = entry.hw.dr
        /\ Performed({"writedr"}) = {}
        /\ vmcs["kGuestDr7"] = entry.vmcs["kGuestDr7"]
        /\ VmWrites("kGuestDr7") = {}
        /\ GuestRegistersUnchanged
        /\ VmWrites("kGuestRip") = {}
        /\ vmcs["kGuestRip"] = EntryRip

\* a MOV from DR6 to RBX at CPL 3 with TF and DR7.GD set has returned with
\* #GP pending, RBX and DR6 as they were
C15_Witness ==
    /\ pc = "returned"
    /\ EntryIsDrAccess
    /\ EntryCpl = 3
    /\ Bits(EntryQualification, 0, 3) = 6
    /\ Bit(EntryQualification, 4) = 1
    /\ Bit(entry.vmcs["kGuestDr7"], 13) = 1
    /\ Flag(EntryFlags, "tf")
    /\ Bits(vmcs["kVmEntryIntrInfoField"], 0, 8) = 13
    /\ gp_regs["bx"] = entry.gp_regs["bx"]
    /\ gp_regs["bx"] # hw.dr[6]
    /\ hw.dr[6] = entry.hw.dr[6]

----------------------------------------------------------------------------
(* CPUID on different hosts *)

\* what __cpuidex returns on an AMD processor that itself runs under a
\* hypervisor: leaf 0 spells AuthenticAMD, leaf 1 reports the hypervisor
\* present bit, leaf 0x40000000 holds the signature of that hypervisor
NestedAmdCpuid ==
    [q \in CpuidLeaves \X CpuidSubleaves |->
        CASE q[1] = Nat64(0) ->
                <<Nat64(13), U64(0, 0, 26740, 30017),
                  U64(0, 0, 17485, 16739), U64(0, 0, 26996, 28261)>>
          [] q[1] = Nat64(1) ->
                <<U64(0, 0, 128, 3856), U64(0, 0, 512, 2048),
                  U64(0, 0, 65240, 12803), U64(0, 0, 6027, 64511)>>
          [] q[1] = Nat64(7) ->
                IF q[2] = Zero64
                THEN <<Zero64, U64(0, 0, 536, 425), U64(0, 0, 32768, 4), Zero64>>
                ELSE <<Zero64, Zero64, Zero64, Nat64(q[2][4])>>
          [] OTHER ->
                <<U64(0, 0, 16384, 1), U64(0, 0, 19277, 22091),
                  U64(0, 0, 22091, 19798), U64(0, 0, 0, 77)>>]

HostCpuidTables == {IntelCpuid, NestedAmdCpuid}

InitCpuid ==
    \E table \in HostCpuidTables :
        /\ pc = "guest"
        /\ gp_regs = [r \in RegisterSet |-> Zero64]
        /\ vmcs = InitVmcs
        /\ hw = [InitHw(TypicalFixed) EXCEPT !.cpuid = table]
        /\ ctx = NoContext
        /\ stop = NoStop
        /\ entry = [gp_regs |-> [r \in RegisterSet |-> Zero64], vmcs |-> InitVmcs,
                    hw |-> [InitHw(TypicalFixed) EXCEPT !.cpuid = table]]
        /\ prev = NoPrev
        /\ log = <<>>
        /\ Uniprocessor

\* guest RAX and RCX of the CPUID exits: the leaves and subleaves, also
\* under set upper halves
CpuidRaxValues ==
    CpuidLeaves \cup {U64(0, 1, 0, 0), U64(65535, 65535, 0, 1), U64(0, 7, 0, 7)}
CpuidRcxValues == CpuidSubleaves \cup {U64(0, 1, 0, 1)}

CpuidScenarios ==
    {Base(VmxExitReason.kCpuid, Zero64, Zero64,
          [BaseRegs EXCEPT !["ax"] = q[1], !["cx"] = q[2],
                           !["bx"] = JunkValue, !["dx"] = JunkValue], NoFields) :
        q \in CpuidRaxValues \X CpuidRcxValues}

\* a CPUID exit, the first one or one after the guest was resumed
CpuidExit ==
    /\ \/ pc = "guest"
       \/ pc = "returned" /\ ctx.vm_continue
    /\ \E b \in CpuidScenarios, flags \in GuestFlags, cpl \in GuestCpls,
          len \in InstLens :
            DeliverExit(b, flags, cpl, len, 0, U64(65535, 63488, 4660, 22136))
    /\ UNCHANGED prev

NextCpuid == CpuidExit \/ VmmVmExitHandler

SpecCpuid == InitCpuid /\ [][NextCpuid]_vars

EntryIsCpuid == EntryReason = VmxExitReason.kCpuid

\* the leaf and the subleaf the instruction names: EAX and ECX
EntryLeaf == Low32(entry.gp_regs["ax"])
EntrySubleaf == Low32(entry.gp_regs["cx"])

\* what the host's CPUID reports for the leaf and subleaf of the exit
EntryHostCpuid == entry.hw.cpuid[<<EntryLeaf, EntrySubleaf>>]

\* the four bytes of a 32-bit register value, lowest first
Bytes32(v) == <<v[4] % 256, v[4] \div 256, v[3] % 256, v[3] \div 256>>

\* the 12 characters EBX, EDX, ECX spell
VendorString == Bytes32(gp_regs["bx"]) \o Bytes32(gp_regs["dx"]) \o Bytes32(gp_regs["cx"])

\* "GenuineIntel"
GenuineIntel == <<71, 101, 110, 117, 105, 110, 101, 73, 110, 116, 101, 108>>

\* C16: a CPUID exit with EAX = 0 returns with RAX = 16 and with EBX, EDX,
\* ECX spelling GenuineIntel (upper halves zero) whatever the host's CPUID
\* reports, and with the guest RIP advanced by the instruction length.
C16_Leaf0VendorIsFixed ==
    (Handled /\ EntryIsCpuid /\ EntryLeaf = Zero64) =>
        /\ pc = "returned"
        /\ gp_regs["ax"] = Nat64(16)
        /\ VendorString = GenuineIntel
        /\ \A r \in {"bx", "cx", "dx"} : High32(gp_regs[r]) = Zero64
        /\ vmcs["kGuestRip"] = Add64(EntryRip, EntryInstLen)

\* CPUID with EAX = 0 under set upper bits of RAX has returned GenuineIntel
\* on the host that reports AuthenticAMD
C16_Witness ==
    /\ pc = "returned"
    /\ EntryIsCpuid
    /\ entry.gp_regs["ax"] = U64(0, 1, 0, 0)
    /\ entry.hw.cpuid = NestedAmdCpuid
    /\ EntryHostCpuid[2] = U64(0, 0, 26740, 30017)
    /\ VendorString = GenuineIntel
    /\ vmcs["kGuestRip"] = Add64(EntryRip, EntryInstLen)

\* C17: a CPUID exit with EAX = 1 returns ECX with bit 31 clear and every
\* other bit of EAX, EBX, ECX, EDX as the host's CPUID reports it for the
\* leaf and subleaf; an exit with another EAX than 0 and 1 returns all four
\* registers as the host reports them for the leaf and subleaf.
C17_Leaf1HidesHypervisorOthersPassThrough ==
    (Handled /\ EntryIsCpuid /\ EntryLeaf # Zero64) =>
        /\ pc = "returned"
        /\ gp_regs["ax"] = EntryHostCpuid[1]
        /\ gp_regs["bx"] = EntryHostCpuid[2]
        /\ gp_regs["dx"] = EntryHostCpuid[4]
        /\ IF EntryLeaf = Nat64(1)
           THEN /\ Bit(gp_regs["cx"], 31) = 0
                /\ \A k \in 0..30 : Bit(gp_regs["cx"], k) = Bit(EntryHostCpuid[3], k)
                /\ High32(gp_regs["cx"]) = Zero64
           ELSE gp_regs["cx"] = EntryHostCpuid[3]

\* CPUID leaf 1 has returned ECX without the hypervisor present bit that the
\* host reports, and EDX as the host reports it
C17_Witness ==
    /\ pc = "returned"
    /\ EntryIsCpuid
    /\ EntryLeaf = Nat64(1)
    /\ Bit(EntryHostCpuid[3], 31) = 1
    /\ Bit(gp_regs["cx"], 31) = 0
    /\ gp_regs["cx"] = U64(0, 0, 32472, 12803)
    /\ gp_regs["dx"] = EntryHostCpuid[4]

----------------------------------------------------------------------------
(* VMCALL *)

EntryIsVmcall == EntryReason = VmxExitReason.kVmcall

\* the hypercall number: the low 32 bits of RCX; the context: RDX
EntryHypercallNumber == Low32(entry.gp_regs["cx"])
EntryContext == entry.gp_regs["dx"]

\* a number outside kMinimumHypercallNumber..kMaximumHypercallNumber, or the
\* termination request from a CPL other than 0
EntryIsRefusedVmcall ==
    /\ EntryIsVmcall
    /\ \/ ~Le64(HypercallNumber.kMinimumHypercallNumber, EntryHypercallNumber)
       \/ ~Le64(EntryHypercallNumber, HypercallNumber.kMaximumHypercallNumber)
       \/ /\ EntryHypercallNumber = HypercallNumber.kTerminateVmm
          /\ EntryCpl # 0

\* C18: a VMCALL whose number is outside the valid range, or that asks for
\* termination at a CPL other than 0, returns continue with #UD pending (a
\* hardware exception without error code), the VM-entry instruction length
\* set to the instruction length of the exit, and the guest RIP, RFLAGS,
\* registers and memory as they were.
C18_RefusedVmcallInjectsUd ==
    (Handled /\ EntryIsRefusedVmcall) =>
        /\ pc = "returned"
        /\ ctx.vm_continue
        /\ vmcs["kVmEntryIntrInfoField"] =
              InterruptionInformation(InterruptionType.kHardwareException,
                  InterruptionVector.kInvalidOpcodeException, FALSE)
        /\ vmcs["kVmEntryInstructionLen"] = EntryInstLen
        /\ VmWrites("kGuestRip") = {}
        /\ vmcs["kGuestRip"] = EntryRip
        /\ VmWrites("kGuestRflags") = {}
        /\ vmcs["kGuestRflags"] = EntryFlags
        /\ GuestRegistersUnchanged
        /\ hw.mem = entry.hw.mem
        /\ GuestMemoryAccesses = {}

\* the termination request from CPL 3 with TF set has returned continue with
\* #UD pending and the instruction length of the exit
C18_Witness ==
    /\ pc = "returned"
    /\ EntryIsVmcall
    /\ EntryHypercallNumber = HypercallNumber.kTerminateVmm
    /\ EntryCpl = 3
    /\ Flag(EntryFlags, "tf")
    /\ EntryInstLen = Nat64(MaxInstLen)
    /\ vmcs["kVmEntryInstructionLen"] = Nat64(MaxInstLen)
    /\ Bits(vmcs["kVmEntryIntrInfoField"], 0, 8) = 6
    /\ Bit(vmcs["kVmEntryIntrInfoField"], 31) = 1
    /\ ctx.vm_continue

\* the guest-state fields of the VMCS that the model holds
GuestStateFields ==
    {"kGuestRip", "kGuestRsp", "kGuestRflags",
     "kGuestCr0", "kGuestCr3", "kGuestCr4", "kGuestDr7",
     "kGuestSsArBytes", "kGuestCsSelector",
     "kGuestSysenterCs", "kGuestSysenterEsp", "kGuestSysenterEip",
     "kGuestIa32Debugctl",
     "kGuestEsBase", "kGuestCsBase", "kGuestSsBase", "kGuestDsBase",
     "kGuestFsBase", "kGuestGsBase",
     "kGuestGdtrBase", "kGuestGdtrLimit", "kGuestIdtrBase", "kGuestIdtrLimit",
     "kGuestLdtrSelector", "kGuestTrSelector"}

\* CF, PF, AF, ZF, SF, OF
StatusFlagBits == {0, 2, 4, 6, 7, 11}

\* C19: a VMCALL with the ping number, any context and any CPL returns
\* continue with CF, PF, AF, ZF, SF and OF clear and every other bit of the
\* guest RFLAGS as it was, with the guest RIP advanced by the instruction
\* length, and with no guest register, no guest memory and no other
\* guest-state field of the VMCS changed.
C19_PingSucceedsAndChangesNothingElse ==
    (Handled /\ EntryIsVmcall /\ EntryHypercallNumber = HypercallNumber.kPingVmm) =>
        /\ pc = "returned"
        /\ ctx.vm_continue
        /\ \A k \in 0..63 :
              Bit(vmcs["kGuestRflags"], k) =
                  IF k \in StatusFlagBits THEN 0 ELSE Bit(EntryFlags, k)
        /\ vmcs["kGuestRip"] = Add64(EntryRip, EntryInstLen)
        /\ GuestRegistersUnchanged
        /\ hw.mem = entry.hw.mem
        /\ GuestMemoryAccesses = {}
        /\ \A f \in GuestStateFields \ {"kGuestRflags", "kGuestRip"} :
              vmcs[f] = entry.vmcs[f]

\* the ping from CPL 3 with CF, PF, ZF, SF, DF and OF set has returned with
\* DF alone left of them
C19_Witness ==
    /\ pc = "returned"
    /\ EntryIsVmcall
    /\ EntryHypercallNumber = HypercallNumber.kPingVmm
    /\ EntryCpl = 3
    /\ EntryContext = GuestBuffer
    /\ EntryFlags = BusyFlags
    /\ vmcs["kGuestRflags"] = Nat64(1538)
    /\ vmcs["kGuestRip"] = Add64(EntryRip, EntryInstLen)

----------------------------------------------------------------------------
(* String I/O *)

EntryIsIo == EntryReason = VmxExitReason.kIoInstruction

RECURSIVE Times64(_, _)
\* value * n modulo 2^64, for a small n
Times64(value, n) == IF n = 0 THEN Zero64 ELSE Add64(value, Times64(value, n - 1))

\* the bytes one element of the access takes: the size field plus one
EntryIoSize == Bits(EntryQualification, 0, 3) + 1

\* count * size_of_access, count being RCX under REP and 1 otherwise
EntryIoBytes ==
    Times64(IF Bit(EntryQualification, 5) = 1 THEN entry.gp_regs["cx"] ELSE Nat64(1),
            EntryIoSize)

\* the index register of the string operand, and the other one
EntryIoIndexRegister == IF Bit(EntryQualification, 3) = 1 THEN "di" ELSE "si"
EntryIoOtherRegister == IF Bit(EntryQualification, 3) = 1 THEN "si" ELSE "di"

\* C20: after an INS or OUTS exit RDI (INS) or RSI (OUTS) has moved by
\* count * size_of_access, count being RCX under REP and 1 otherwise, down
\* when the guest DF is set and up otherwise, and the other index register
\* is as it was; after an IN or OUT exit RSI, RDI and RCX are as they were.
C20_StringIoMovesIndexRegister ==
    (pc = "returned" /\ EntryIsIo) =>
        IF Bit(EntryQualification, 4) = 1
        THEN /\ gp_regs[EntryIoIndexRegister] =
                    IF Flag(EntryFlags, "df")
                    THEN Sub64(entry.gp_regs[EntryIoIndexRegister], EntryIoBytes)
                    ELSE Add64(entry.gp_regs[EntryIoIndexRegister], EntryIoBytes)
             /\ gp_regs[EntryIoOtherRegister] = entry.gp_regs[EntryIoOtherRegister]
        ELSE /\ gp_regs["si"] = entry.gp_regs["si"]
             /\ gp_regs["di"] = entry.gp_regs["di"]
             /\ gp_regs["cx"] = entry.gp_regs["cx"]

\* REP OUTSW with DF set and RCX = 0x1_0000_0002 has returned with RSI
\* moved down by 0x2_0000_0004 and RDI as it was
C20_Witness ==
    /\ pc = "returned"
    /\ EntryIsIo
    /\ Bits(EntryQualification, 0, 6) = 49
    /\ Flag(EntryFlags, "df")
    /\ entry.gp_regs["cx"] = U64(0, 1, 0, 2)
    /\ entry.gp_regs["si"] = GuestBuffer
    /\ gp_regs["si"] = U64(65535, 65534, 32, 252)
    /\ gp_regs["di"] = GuestBuffer

----------------------------------------------------------------------------
(* Exit reasons without a case *)

\* C21: an exit whose reason has no case in the switch of VmmpHandleVmExit
\* ends in the bug check with code kUnexpectedVmExit, whose parameters are
\* the guest context, the guest instruction pointer at the exit and the
\* exit qualification of the VMCS; the handler does not return.
C21_UnexpectedExitCarriesQualification ==
    (Handled /\ EntryReason \notin HandledReasons)
    => /\ pc = "halted"
       /\ stop.code = "kUnexpectedVmExit"
       /\ stop.p1 = HostAddress.guest_context
       /\ stop.p2 = EntryRip
       /\ stop.p3 = EntryQualification

\* an exit of a reason without a case and with a non-zero qualification has
\* stopped the system with that qualification
C21_Witness ==
    /\ pc = "halted"
    /\ EntryReason \notin HandledReasons
    /\ EntryQualification = Value64
    /\ stop.code = "kUnexpectedVmExit"
    /\ stop.p3 = Value64

----------------------------------------------------------------------------
(* EPT misconfiguration *)

EntryIsEptMisconfig == EntryReason = VmxExitReason.kEptMisconfig

\* the EPT entry that maps the faulting guest-physical address of the exit
EntryEptEntry == entry.hw.ept_entry[entry.vmcs["kGuestPhysicalAddress"]]

\* C22: an EPT-misconfiguration exit looks the entry of the faulting
\* guest-physical address up through EptGetEptPtEntry and ends in the bug
\* check with code kEptMisconfigVmExit, whose parameters are the faulting
\* guest-physical address and the raw value of that entry.
C22_EptMisconfigCarriesEntryValue ==
    (Handled /\ EntryIsEptMisconfig)
    => /\ pc = "halted"
       /\ \E i \in Performed({"EptGetEptPtEntry"}) :
              /\ log[i].v = HostAddress.ept_data
              /\ log[i].w = entry.vmcs["kGuestPhysicalAddress"]
       /\ stop.code = "kEptMisconfigVmExit"
       /\ stop.p1 = entry.vmcs["kGuestPhysicalAddress"]
       /\ stop.p2 = EntryEptEntry.all

\* an EPT-misconfiguration exit has stopped the system with the faulting
\* address and the address of the entry, which is not the value the entry
\* holds
C22_Witness ==
    /\ pc = "halted"
    /\ EntryIsEptMisconfig
    /\ Performed({"EptGetEptPtEntry"}) # {}
    /\ stop.code = "kEptMisconfigVmExit"
    /\ stop.p1 = entry.vmcs["kGuestPhysicalAddress"]
    /\ stop.p2 = EntryEptEntry.address
    /\ stop.p2 # EntryEptEntry.all

----------------------------------------------------------------------------
(* The termination hypercall *)

\* the termination request made at CPL 0
EntryIsTermination ==
    /\ EntryIsVmcall
    /\ EntryHypercallNumber = HypercallNumber.kTerminateVmm
    /\ EntryCpl = 0

\* CF, PF, AF, ZF, SF and OF: bits 0, 2, 4, 6, 7 and 11
SixStatusFlags == U64(0, 0, 0, 2261)

\* the descriptor-table register the VMCS describes for the guest
GuestTable(base_field, limit_field) ==
    [limit |-> entry.vmcs[limit_field][4], base |-> entry.vmcs[base_field]]

\* C23: a termination VMCALL at guest CPL 0 returns from the dispatcher
\* with guest RCX = RIP at the exit + the exit's instruction length, guest
\* RDX = RSP at the exit, guest RAX = the flags at the exit with CF, PF, AF,
\* ZF, SF and OF cleared, the address of the processor data stored through
\* the pointer guest RDX held, GDTR and IDTR loaded with the guest values of
\* the VMCS, and the verdict terminate.
C23_TerminationSetsReturnRegisters ==
    (Handled /\ EntryIsTermination)
    => /\ pc = "returned"
       /\ gp_regs["cx"] = Add64(EntryRip, EntryInstLen)
       /\ gp_regs["dx"] = entry.vmcs["kGuestRsp"]
       /\ gp_regs["ax"] = And64(EntryFlags, Not64(SixStatusFlags))
       /\ \E i \in Performed({"memwrite"}) :
              log[i].v = EntryContext /\ log[i].w = HostAddress.processor_data
       /\ EntryContext \in DOMAIN hw.mem
              => hw.mem[EntryContext] = HostAddress.processor_data
       /\ hw.gdtr = GuestTable("kGuestGdtrBase", "kGuestGdtrLimit")
       /\ hw.idtr = GuestTable("kGuestIdtrBase", "kGuestIdtrLimit")
       /\ Performed({"lgdt"}) # {} /\ Performed({"lidt"}) # {}
       /\ ~ctx.vm_continue

\* the termination request with status flags set, a stack pointer that
\* differs from the pushed RSP slot and a context pointer into guest memory
\* has returned with the flags cleared in RAX and the tables reloaded
C23_Witness ==
    /\ pc = "returned"
    /\ EntryIsTermination
    /\ EntryFlags = BusyFlags
    /\ gp_regs["ax"] = Nat64(1538)
    /\ entry.gp_regs["sp"] # entry.vmcs["kGuestRsp"]
    /\ gp_regs["dx"] = GuestRsp
    /\ EntryContext = GuestBuffer
    /\ hw.mem[GuestBuffer] = HostAddress.processor_data
    /\ entry.hw.gdtr # hw.gdtr
    /\ ~ctx.vm_continue

----------------------------------------------------------------------------
(* The instruction pointer after a rejected MSR access *)

\* C24: an RDMSR or WRMSR exit with a disallowed index returns with the
\* guest RIP of the VMCS equal to the RIP at the exit plus the exit's
\* instruction length, written once, as on the path that services the
\* access.
C24_RejectedMsrAccessAdvancesRip ==
    (Handled /\ EntryIsMsr /\ DisallowedIndex(EntryEcx))
    => /\ pc = "returned"
       /\ GpInjected
       /\ Cardinality(VmWrites("kGuestRip")) = 1
       /\ vmcs["kGuestRip"] = Add64(EntryRip, EntryInstLen)

\* WRMSR to index 0x2000, MaxInstLen bytes long, has been answered with #GP
\* and the instruction pointer is past it
C24_Witness ==
    /\ pc = "returned"
    /\ EntryReason = VmxExitReason.kMsrWrite
    /\ entry.gp_regs["cx"] = U64(0, 0, 0, 8192)
    /\ EntryInstLen = Nat64(MaxInstLen)
    /\ GpInjected
    /\ vmcs["kGuestRip"] = Add64(EntryRip, Nat64(MaxInstLen))
    /\ vmcs["kGuestRip"] # EntryRip

----------------------------------------------------------------------------
(* EPT violation *)

EntryIsEptViolation == EntryReason = VmxExitReason.kEptViolation

\* C25: an EPT-violation exit calls EptHandleEptViolation once with the
\* processor's EPT state and returns with the verdict continue; the handler
\* writes no VMCS field (neither the guest RIP, nor a VM-entry injection
\* field, nor the guest flags) and no guest register.
C25_EptViolationOnlyForwards ==
    (Handled /\ EntryIsEptViolation)
    => /\ pc = "returned"
       /\ ctx.vm_continue
       /\ Cardinality(Performed({"EptHandleEptViolation"})) = 1
       /\ \A i \in Performed({"EptHandleEptViolation"}) :
              log[i].v = HostAddress.ept_data
       /\ Performed({"vmwrite"}) = {}
       /\ vmcs = entry.vmcs
       /\ GuestRegistersUnchanged

\* an EPT-violation exit taken with the trap flag set has returned after
\* the call of the resolver, with the VMCS as the exit left it
C25_Witness ==
    /\ pc = "returned"
    /\ EntryIsEptViolation
    /\ Flag(EntryFlags, "tf")
    /\ Performed({"EptHandleEptViolation"}) # {}
    /\ vmcs["kGuestRip"] = EntryRip
    /\ Bit(vmcs["kVmEntryIntrInfoField"], 31) = 0
    /\ ctx.vm_continue

----------------------------------------------------------------------------
(* Several processors *)

\* the processors are numbered 0..MaxProcessor
MaxProcessor == 1

Processors == 0..MaxProcessor

\* linear addresses the guests touch
SmpAddresses == {GuestBuffer, GuestRsp}

\* processor p after bring-up, its guest running
BootedProcessor(p) ==
    [pc |-> "guest",
     m |-> [gp_regs |-> [r \in RegisterSet |-> Zero64],
            vmcs |-> InitVmcs,
            hw |-> [InitHw(TypicalFixed) EXCEPT !.processor = p],
            ctx |-> NoContext, stop |-> NoStop, log |-> <<>>],
     entry |-> [gp_regs |-> [r \in RegisterSet |-> Zero64],
                vmcs |-> InitVmcs,
                hw |-> [InitHw(TypicalFixed) EXCEPT !.processor = p]]]

\* every processor runs its guest under the VPID processor number + 1 and
\* has its own VMCS, register file and host state
InitSmp ==
    /\ InitWith(TypicalFixed)
    /\ cpus = [p \in Processors |-> BootedProcessor(p)]
    /\ tlb = {}
    /\ call = NoCall
    /\ history = NoHistory
    /\ driver = NoDriver

\* the exits that invalidate: MOV to CR3, MOV to CR4, INVLPG of an address;
\* and CPUID, which does not
SmpScenarios ==
    {Base(VmxExitReason.kCrAccess, CrQual(cr, 0, 0), Zero64,
          [BaseRegs EXCEPT !["ax"] = Value32], NoFields) : cr \in {3, 4}}
    \cup {Base(VmxExitReason.kInvlpg, a, Zero64, BaseRegs, NoFields) : a \in SmpAddresses}
    \cup {Base(VmxExitReason.kCpuid, Zero64, Zero64, BaseRegs, NoFields)}

\* the guest of processor p touches an address: the translation is cached
\* under the processor's VPID
SmpGuestRuns(p) ==
    /\ cpus[p].pc = "guest"
    /\ \E a \in SmpAddresses :
           /\ [vpid |-> Nat64(p + 1), address |-> a] \notin tlb
           /\ tlb' = tlb \cup {[vpid |-> Nat64(p + 1), address |-> a]}
    /\ UNCHANGED <<pc, gp_regs, vmcs, hw, ctx, stop, entry, prev, log, cpus, call, history, driver>>

\* the guest of processor p exits
SmpExit(p) ==
    /\ cpus[p].pc = "guest"
    /\ \E b \in SmpScenarios :
         \E v \in {ExitVmcs(cpus[p].m.vmcs, b, PlainFlags, 0, MaxInstLen,
                            U64(65535, 63488, 4660, 22136))} :
           cpus' = [cpus EXCEPT ![p] =
                      [pc |-> "exit",
                       m |-> [cpus[p].m EXCEPT !.gp_regs = b.regs, !.vmcs = v,
                                               !.hw = ExitHw(@, 0),
                                               !.ctx = NoContext, !.log = <<>>],
                       entry |-> [gp_regs |-> b.regs, vmcs |-> v,
                                  hw |-> ExitHw(cpus[p].m.hw, 0)]]]
    /\ UNCHANGED <<pc, gp_regs, vmcs, hw, ctx, stop, entry, prev, log, tlb, call, history, driver>>

RECURSIVE Invalidated(_, _, _)
\* the cached mappings after the invalidations of a handler's log, from
\* position i on: INVVPID removes the mappings of the tag it names
Invalidated(ops, i, mappings) ==
    IF i > Len(ops) THEN mappings
    ELSE Invalidated(ops, i + 1,
            CASE ops[i].op = "UtilInvvpidIndividualAddress" ->
                    mappings \ {[vpid |-> ops[i].v, address |-> ops[i].w]}
              [] ops[i].op = "UtilInvvpidSingleContextExceptGlobal" ->
                    {e \in mappings : e.vpid # ops[i].v}
              [] ops[i].op \in {"UtilInvvpidAllContext", "UtilInveptGlobal"} -> {}
              [] OTHER -> mappings)

\* VmmVmExitHandler runs on processor p
SmpVmExitHandler(p) ==
    /\ cpus[p].pc = "exit"
    /\ \E m \in {VmmVmExitHandlerBody(cpus[p].m)} :
           /\ cpus' = [cpus EXCEPT ![p].m = m,
                                   ![p].pc = IF Halted(m) THEN "halted" ELSE "returned"]
           /\ tlb' = Invalidated(m.log, 1, tlb)
    /\ UNCHANGED <<pc, gp_regs, vmcs, hw, ctx, stop, entry, prev, log, call, history, driver>>

\* VMRESUME on processor p
SmpResume(p) ==
    /\ cpus[p].pc = "returned"
    /\ cpus[p].m.ctx.vm_continue
    /\ cpus' = [cpus EXCEPT ![p].pc = "guest"]
    /\ UNCHANGED <<pc, gp_regs, vmcs, hw, ctx, stop, entry, prev, log, tlb, call, history, driver>>

NextSmp ==
    \E p \in Processors :
        SmpGuestRuns(p) \/ SmpExit(p) \/ SmpVmExitHandler(p) \/ SmpResume(p)

SpecSmp == InitSmp /\ [][NextSmp]_vars

\* what the exit in flight or last handled on processor p was
SmpReason(p) == cpus[p].entry.vmcs["kVmExitReason"][4]
SmpQualification(p) == cpus[p].entry.vmcs["kExitQualification"]

SmpIsMoveToCr(p, control_register) ==
    /\ SmpReason(p) = VmxExitReason.kCrAccess
    /\ Bits(SmpQualification(p), 4, 2) = 0
    /\ Bits(SmpQualification(p), 0, 4) = control_register

SmpIsInvlpg(p) == SmpReason(p) = VmxExitReason.kInvlpg

InvalidationOps ==
    {"UtilInvvpidIndividualAddress", "UtilInvvpidSingleContextExceptGlobal",
     "UtilInvvpidAllContext", "UtilInveptGlobal"}

\* the invalidations the handler on processor p issued during the exit
SmpInvalidations(p) ==
    {i \in DOMAIN cpus[p].m.log : cpus[p].m.log[i].op \in InvalidationOps}

\* the handler on processor p wrote the VMCS field during the exit
SmpWrote(p, field) ==
    \E i \in DOMAIN cpus[p].m.log :
        cpus[p].m.log[i].op = "vmwrite" /\ cpus[p].m.log[i].f = field

\* the mappings cached under the VPID of processor q
TaggedMappings(q) == {e \in tlb : e.vpid = Nat64(q + 1)}

\* the one invalidation of the exit handled on processor p is of the kind,
\* for the tag and for the address
SmpInvalidatedOnce(p, kind, tag, address) ==
    /\ Cardinality(SmpInvalidations(p)) = 1
    /\ \A i \in SmpInvalidations(p) :
           /\ cpus[p].m.log[i].op = kind
           /\ cpus[p].m.log[i].v = tag
           /\ cpus[p].m.log[i].w = address

\* what a handled exit on processor p has issued
SmpIssuedForOwnTag(p) ==
    /\ SmpIsMoveToCr(p, 3) =>
           /\ SmpInvalidatedOnce(p, "UtilInvvpidSingleContextExceptGlobal",
                                 Nat64(p + 1), Zero64)
           /\ SmpWrote(p, "kGuestCr3")
    /\ SmpIsInvlpg(p) =>
           SmpInvalidatedOnce(p, "UtilInvvpidIndividualAddress",
                              Nat64(p + 1), SmpQualification(p))
    /\ SmpIsMoveToCr(p, 4) =>
           /\ SmpInvalidatedOnce(p, "UtilInvvpidAllContext", Zero64, Zero64)
           /\ SmpWrote(p, "kGuestCr4")

\* the step is VmmVmExitHandler on processor p
SmpHandles(p) == cpus[p].pc = "exit" /\ cpus'[p].pc # "exit"

\* the handler of a MOV-to-CR3 or INVLPG exit on p removes the mappings it
\* is to remove under p's tag and none under the tag of another processor
SmpKeepsOtherTags(p) ==
    (SmpHandles(p) /\ (SmpIsMoveToCr(p, 3) \/ SmpIsInvlpg(p)))
    => /\ \A q \in Processors \ {p} :
              {e \in tlb : e.vpid = Nat64(q + 1)} \subseteq tlb'
       /\ SmpIsMoveToCr(p, 3) =>
              {e \in tlb' : e.vpid = Nat64(p + 1)} = {}
       /\ SmpIsInvlpg(p) =>
              [vpid |-> Nat64(p + 1), address |-> SmpQualification(p)] \notin tlb'

\* C26: a MOV-to-CR3 exit on processor p issues one single-context VPID
\* invalidation for tag p + 1, in the exit that writes the guest CR3; an
\* INVLPG exit on p issues one individual-address invalidation for tag p + 1
\* and the linear address of the exit qualification; a MOV-to-CR4 exit
\* issues one all-context invalidation, in the exit that writes the guest
\* CR4. However exits on different processors interleave, the handler of a
\* MOV-to-CR3 or INVLPG exit removes no mapping cached under the tag of
\* another processor.
C26_InvalidationsNameOwnTag ==
    /\ [](\A p \in Processors : cpus[p].pc = "returned" => SmpIssuedForOwnTag(p))
    /\ [][\A p \in Processors : SmpKeepsOtherTags(p)]_vars

\* processor 1 has handled a MOV to CR3 with the invalidation of tag 2
\* while processor 0 is inside an INVLPG exit and its mappings under tag 1
\* are still cached
C26_Witness ==
    /\ cpus[1].pc = "returned"
    /\ SmpIsMoveToCr(1, 3)
    /\ SmpInvalidatedOnce(1, "UtilInvvpidSingleContextExceptGlobal", Nat64(2), Zero64)
    /\ cpus[0].pc = "exit"
    /\ SmpIsInvlpg(0)
    /\ TaggedMappings(0) = {[vpid |-> Nat64(1), address |-> a] : a \in SmpAddresses}
    /\ TaggedMappings(1) = {}

----------------------------------------------------------------------------
(* VmmpAdjustGuestInstructionPointer *)

\* valid, hardware exception, vector 1, no error code: 0x80000301
DebugExceptionInformation == U64(0, 0, 32768, 769)

\* the VMCS writes that follow position i of the log
VmWritesAfter(i) == {j \in Performed({"vmwrite"}) : j > i}

\* C27: wherever a handler that returned called
\* VmmpAdjustGuestInstructionPointer, it wrote the guest RIP with the RIP at
\* the exit plus the exit's instruction length; with the guest trap flag
\* set at the exit it then wrote the VM-entry interruption information for
\* a hardware exception of vector 1 without error code and the VM-entry
\* instruction length with the exit's instruction length, and nothing else;
\* with the trap flag clear it wrote nothing after the guest RIP, so every
\* VM-entry injection field stays as it was before the call.
C27_AdvanceInjectsDebugOnlyWithTf ==
    pc = "returned"
    => \A i \in VmWrites("kGuestRip") :
          /\ log[i].v = Add64(EntryRip, EntryInstLen)
          /\ IF Flag(EntryFlags, "tf")
             THEN /\ VmWritesAfter(i) = {i + 1, i + 2}
                  /\ log[i + 1].f = "kVmEntryIntrInfoField"
                  /\ log[i + 1].v = DebugExceptionInformation
                  /\ log[i + 2].f = "kVmEntryInstructionLen"
                  /\ log[i + 2].v = EntryInstLen
                  /\ vmcs["kVmEntryIntrInfoField"] = DebugExceptionInformation
                  /\ vmcs["kVmEntryInstructionLen"] = EntryInstLen
             ELSE VmWritesAfter(i) = {}

\* a CPUID exit of MaxInstLen bytes taken with the trap flag set has
\* returned with the debug exception pending and the instruction length
\* copied
C27_Witness ==
    /\ pc = "returned"
    /\ EntryReason = VmxExitReason.kCpuid
    /\ Flag(EntryFlags, "tf")
    /\ EntryInstLen = Nat64(MaxInstLen)
    /\ VmWrites("kGuestRip") # {}
    /\ vmcs["kGuestRip"] = Add64(EntryRip, EntryInstLen)
    /\ vmcs["kVmEntryIntrInfoField"] = DebugExceptionInformation
    /\ vmcs["kVmEntryInstructionLen"] = Nat64(MaxInstLen)
    /\ entry.vmcs["kVmEntryInstructionLen"] # Nat64(MaxInstLen)

\* an RDMSR of a disallowed index taken with the trap flag clear has
\* returned with the general-protection fault it injected before the
\* advance still pending
C27_WitnessNoTf ==
    /\ pc = "returned"
    /\ EntryIsMsr
    /\ ~Flag(EntryFlags, "tf")
    /\ VmWrites("kGuestRip") # {}
    /\ PendingGp

----------------------------------------------------------------------------
(* VmmpInjectInterruption on its own *)

\* InterruptionType has the eight values of the 3-bit field
InjectTypes == 0..7

\* divide error, #DB, #BP, #UD, #GP, #PF and the last vector
InjectVectors == {0, 1, 3, 6, 13, 14, 255}

\* error codes: none, the one of the MSR rejection, a page-fault code, all ones
InjectErrorCodes == {Zero64, Nat64(106), Nat64(2), U64(0, 0, 65535, 65535)}

\* the exits in whose handling the function is called
InjectScenarios ==
    ReasonScenarios(VmxExitReason.kExceptionOrNmi)
    \cup ReasonScenarios(VmxExitReason.kMsrRead)

InjectExit ==
    /\ pc = "guest"
    /\ \E b \in InjectScenarios, flags \in GuestFlags :
            DeliverExit(b, flags, 0, 2, 0, U64(65535, 63488, 4660, 22136))
    /\ UNCHANGED prev

\* a handler calls VmmpInjectInterruption
VmmpInjectInterruptionCall ==
    /\ pc = "exit"
    /\ \E interruption_type \in InjectTypes, vector \in InjectVectors,
          deliver_error_code \in BOOLEAN, error_code \in InjectErrorCodes :
         \E m \in {VmmpInjectInterruption(Machine, interruption_type, vector,
                                          deliver_error_code, error_code)} :
            /\ gp_regs' = m.gp_regs
            /\ vmcs' = m.vmcs
            /\ hw' = m.hw
            /\ ctx' = m.ctx
            /\ stop' = m.stop
            /\ log' = m.log
            /\ call' = [function |-> "VmmpInjectInterruption",
                        interruption_type |-> interruption_type,
                        vector |-> vector,
                        deliver_error_code |-> deliver_error_code,
                        error_code |-> error_code]
            /\ pc' = "called"
    /\ UNCHANGED <<entry, prev, cpus, tlb, history, driver>>

NextInject == InjectExit \/ VmmpInjectInterruptionCall

SpecInject == Init /\ [][NextInject]_vars

\* C28: VmmpInjectInterruption leaves the VM-entry interruption information
\* with the valid bit set, the type, the vector and the deliver-error-code
\* flag it was given and nothing else set; it writes the VM-entry exception
\* error code, with the code it was given, only when the code is to be
\* delivered; it changes no guest register, no guest flag, no other VMCS
\* field and nothing of the host state.
C28_InjectWritesOnlyEntryFields ==
    pc = "called"
    => /\ Bit(vmcs["kVmEntryIntrInfoField"], 31) = 1
       /\ Bits(vmcs["kVmEntryIntrInfoField"], 8, 3) = call.interruption_type
       /\ Bits(vmcs["kVmEntryIntrInfoField"], 0, 8) = call.vector
       /\ Bit(vmcs["kVmEntryIntrInfoField"], 11) = 1 <=> call.deliver_error_code
       /\ Bits(vmcs["kVmEntryIntrInfoField"], 12, 19) = 0
       /\ High32(vmcs["kVmEntryIntrInfoField"]) = Zero64
       /\ Cardinality(VmWrites("kVmEntryIntrInfoField")) = 1
       /\ IF call.deliver_error_code
          THEN /\ Cardinality(VmWrites("kVmEntryExceptionErrorCode")) = 1
               /\ vmcs["kVmEntryExceptionErrorCode"] = call.error_code
          ELSE /\ VmWrites("kVmEntryExceptionErrorCode") = {}
               /\ vmcs["kVmEntryExceptionErrorCode"] =
                      entry.vmcs["kVmEntryExceptionErrorCode"]
       /\ \A f \in DOMAIN vmcs \ {"kVmEntryIntrInfoField", "kVmEntryExceptionErrorCode"} :
              vmcs[f] = entry.vmcs[f]
       /\ gp_regs = entry.gp_regs
       /\ hw = entry.hw
       /\ ctx = NoContext

\* the call for a software exception of vector 3 without error code, given
\* an error code all the same, has left the error-code field alone
C28_Witness ==
    /\ pc = "called"
    /\ call.interruption_type = InterruptionType.kSoftwareException
    /\ call.vector = InterruptionVector.kBreakpointException
    /\ ~call.deliver_error_code
    /\ call.error_code = Nat64(106)
    /\ vmcs["kVmEntryIntrInfoField"] = U64(0, 0, 32768, 1539)
    /\ vmcs["kVmEntryExceptionErrorCode"] = Zero64
    /\ Flag(EntryFlags, "tf")

----------------------------------------------------------------------------
(* Debug registers: general detect, DR4 and DR5 *)

\* the debug register the instruction names, and the direction of the move
EntryDebugRegister == Bits(EntryQualification, 0, 3)
EntryDrMoveFrom == Bit(EntryQualification, 4) = 1

\* CR4.DE and DR7.GD of the guest at the exit
EntryCr4De == Bit(entry.vmcs["kGuestCr4"], 3) = 1
EntryDr7Gd == Bit(entry.vmcs["kGuestDr7"], 13) = 1

\* an access to DR4 or DR5 while CR4.DE is set
EntryIsDisabledAlias == EntryDebugRegister \in {4, 5} /\ EntryCr4De

\* B0..B3 cleared and BD set
DetectedDr6(dr6) == Or64(And64(dr6, Not64(Nat64(15))), Nat64(8192))

\* C29: at guest CPL 0 with DR7.GD set in the VMCS, a debug-register access
\* exit that was not refused for DR4/DR5 under CR4.DE returns with a debug
\* exception pending (hardware exception, vector 1, no error code), DR6
\* with B0..B3 cleared and BD set, DR7.GD cleared in the VMCS and nothing
\* else of DR7 changed, no debug register read into a guest register and
\* none written from one, and the guest RIP not advanced.
C29_GeneralDetectRaisesDebugException ==
    (/\ Handled /\ EntryIsDrAccess /\ EntryCpl = 0
     /\ EntryDr7Gd /\ ~EntryIsDisabledAlias)
    => /\ pc = "returned"
       /\ vmcs["kVmEntryIntrInfoField"] = DebugExceptionInformation
       /\ VmWrites("kVmEntryExceptionErrorCode") = {}
       /\ hw.dr = [entry.hw.dr EXCEPT ![6] = DetectedDr6(entry.hw.dr[6])]
       /\ Cardinality(Performed({"writedr"})) = 1
       /\ Performed({"readdr"}) = {}
       /\ vmcs["kGuestDr7"] = And64(entry.vmcs["kGuestDr7"], Not64(Nat64(8192)))
       /\ GuestRegistersUnchanged
       /\ VmWrites("kGuestRip") = {}
       /\ vmcs["kGuestRip"] = EntryRip

\* a MOV to DR0 from RBX at CPL 0 with DR7.GD set has returned with #DB
\* pending, DR0 as it was, DR6 changed and GD cleared
C29_Witness ==
    /\ pc = "returned"
    /\ EntryIsDrAccess
    /\ EntryCpl = 0
    /\ EntryDr7Gd
    /\ EntryDebugRegister = 0
    /\ ~EntryDrMoveFrom
    /\ entry.gp_regs["bx"] # entry.hw.dr[0]
    /\ hw.dr[0] = entry.hw.dr[0]
    /\ hw.dr[6] # entry.hw.dr[6]
    /\ Bits(hw.dr[6], 0, 4) = 0
    /\ Bits(entry.hw.dr[6], 0, 4) # 0
    /\ Bit(hw.dr[6], 13) = 1
    /\ Bit(vmcs["kGuestDr7"], 13) = 0
    /\ vmcs["kVmEntryIntrInfoField"] = DebugExceptionInformation

\* valid, hardware exception, vector 6, no error code: 0x80000306
InvalidOpcodeInformation == U64(0, 0, 32768, 774)

\* the exit in flight with DR6 named in place of DR4 and DR7 in place of
\* DR5, as it was delivered
EntryMachineAliased ==
    [gp_regs |-> entry.gp_regs,
     vmcs |-> [entry.vmcs EXCEPT !["kExitQualification"] =
                  Add64(EntryQualification, Nat64(2))],
     hw |-> entry.hw, ctx |-> NoContext, stop |-> NoStop, log |-> <<>>]

\* the handler left what it leaves for the machine n, the exit
\* qualification aside
SameOutcomeAs(n) ==
    /\ gp_regs = n.gp_regs
    /\ hw = n.hw
    /\ ctx = n.ctx
    /\ stop = n.stop
    /\ log = n.log
    /\ \A f \in DOMAIN vmcs \ {"kExitQualification"} : vmcs[f] = n.vmcs[f]

\* C30: at guest CPL 0 a DR4 or DR5 access exit with guest CR4.DE set
\* returns with an invalid-opcode fault pending (no error code), no debug
\* register, guest DR7 or guest register changed and the guest RIP not
\* advanced; with CR4.DE clear it leaves exactly what the same access to
\* DR6 (for DR4) or DR7 (for DR5) leaves, the general-detect exception and
\* the rejection of set upper 32 bits included.
C30_Dr4Dr5AliasOrFault ==
    (Handled /\ EntryIsDrAccess /\ EntryCpl = 0 /\ EntryDebugRegister \in {4, 5})
    => IF EntryCr4De
       THEN /\ pc = "returned"
            /\ vmcs["kVmEntryIntrInfoField"] = InvalidOpcodeInformation
            /\ VmWrites("kVmEntryExceptionErrorCode") = {}
            /\ hw.dr = entry.hw.dr
            /\ Performed({"writedr", "readdr"}) = {}
            /\ vmcs["kGuestDr7"] = entry.vmcs["kGuestDr7"]
            /\ GuestRegistersUnchanged
            /\ VmWrites("kGuestRip") = {}
            /\ vmcs["kGuestRip"] = EntryRip
       ELSE SameOutcomeAs(VmmVmExitHandlerBody(EntryMachineAliased))

\* a MOV to DR5 from RBX, upper half clear, at CPL 0 with CR4.DE and
\* DR7.GD clear has written the guest DR7 of the VMCS and advanced
C30_Witness ==
    /\ pc = "returned"
    /\ EntryIsDrAccess
    /\ EntryCpl = 0
    /\ EntryDebugRegister = 5
    /\ ~EntryDrMoveFrom
    /\ ~EntryCr4De
    /\ ~EntryDr7Gd
    /\ entry.gp_regs["bx"] = Value32
    /\ vmcs["kGuestDr7"] = U64(0, 0, 32773, 1075)
    /\ vmcs["kGuestDr7"] # entry.vmcs["kGuestDr7"]
    /\ vmcs["kGuestRip"] = Add64(EntryRip, EntryInstLen)

\* a MOV from DR4 to RBX at CPL 0 with CR4.DE set has returned with #UD
\* pending and RBX as it was
C30_WitnessFault ==
    /\ pc = "returned"
    /\ EntryIsDrAccess
    /\ EntryCpl = 0
    /\ EntryDebugRegister = 4
    /\ EntryDrMoveFrom
    /\ EntryCr4De
    /\ vmcs["kVmEntryIntrInfoField"] = InvalidOpcodeInformation
    /\ gp_regs["bx"] = entry.gp_regs["bx"]
    /\ gp_regs["bx"] # hw.dr[6]

----------------------------------------------------------------------------
(* MOV to DR6 and DR7 *)

\* the source register of a MOV to DRn and what it held
EntryDrSource == entry.gp_regs[VmmpSelectRegister(Bits(EntryQualification, 8, 4))]

\* a MOV to DR6 or DR7 (under their own names or as DR4, DR5) at CPL 0 that
\* neither the CR4.DE check nor general detect answers
EntryIsMoveToDr6Or7 ==
    /\ EntryIsDrAccess /\ EntryCpl = 0
    /\ ~EntryIsDisabledAlias /\ ~EntryDr7Gd
    /\ ~EntryDrMoveFrom
    /\ EntryDebugRegister \in {4, 5, 6, 7}

\* valid, hardware exception, vector 13, error code delivered: 0x80000B0D
GeneralProtectionInformation == U64(0, 0, 32768, 2829)

\* DR6 as committed for a source: bits 4..11 and 17..31 one, bit 12 and the
\* upper half zero, the other bits the source's
Dr6Committed(committed, source) ==
    /\ Bits(committed, 4, 8) = 255
    /\ Bit(committed, 12) = 0
    /\ Bits(committed, 17, 15) = 32767
    /\ High32(committed) = Zero64
    /\ \A k \in {0, 1, 2, 3, 13, 14, 15, 16} : Bit(committed, k) = Bit(source, k)

\* DR7 as committed for a source: bit 10 one, bits 12, 14, 15 and the upper
\* half zero, the other bits the source's
Dr7Committed(committed, source) ==
    /\ Bit(committed, 10) = 1
    /\ \A k \in {12, 14, 15} : Bit(committed, k) = 0
    /\ High32(committed) = Zero64
    /\ \A k \in (0..31) \ {10, 12, 14, 15} : Bit(committed, k) = Bit(source, k)

\* C31: at guest CPL 0 with general detect clear, a MOV to DR6 or DR7 from
\* a register with any of bits 63..32 set returns with #GP pending with
\* error code 0, no debug register and no VMCS guest DR7 written and the
\* guest RIP not advanced; with those bits clear the value committed to DR6
\* or to the guest DR7 of the VMCS has the reserved bits at their fixed
\* values and every other bit as the source supplied it.
C31_Dr6Dr7WritesChecked ==
    (Handled /\ EntryIsMoveToDr6Or7)
    => /\ pc = "returned"
       /\ IF High32(EntryDrSource) # Zero64
          THEN /\ vmcs["kVmEntryIntrInfoField"] = GeneralProtectionInformation
               /\ vmcs["kVmEntryExceptionErrorCode"] = Zero64
               /\ hw.dr = entry.hw.dr
               /\ Performed({"writedr"}) = {}
               /\ VmWrites("kGuestDr7") = {}
               /\ VmWrites("kGuestRip") = {}
          ELSE IF EntryDebugRegister \in {4, 6}
          THEN /\ Dr6Committed(hw.dr[6], EntryDrSource)
               /\ VmWrites("kGuestDr7") = {}
               /\ vmcs["kGuestRip"] = Add64(EntryRip, EntryInstLen)
          ELSE /\ Dr7Committed(vmcs["kGuestDr7"], EntryDrSource)
               /\ hw.dr = entry.hw.dr
               /\ vmcs["kGuestRip"] = Add64(EntryRip, EntryInstLen)

\* a MOV to DR6 of 0x1F00F, which has bit 12 set and bits 4..11 and 17..31
\* clear, has committed 0xFFFFEFFF
C31_Witness ==
    /\ pc = "returned"
    /\ EntryIsMoveToDr6Or7
    /\ EntryDebugRegister = 6
    /\ EntryDrSource = ValueReserved
    /\ hw.dr[6] = U64(0, 0, 65535, 61439)
    /\ hw.dr[6] # entry.hw.dr[6]

\* a MOV to DR7 of a value with upper bits set has returned with #GP(0)
\* pending, the guest DR7 as it was
C31_WitnessFault ==
    /\ pc = "returned"
    /\ EntryIsMoveToDr6Or7
    /\ EntryDebugRegister = 7
    /\ EntryDrSource = Value64
    /\ vmcs["kVmEntryIntrInfoField"] = GeneralProtectionInformation
    /\ vmcs["kGuestDr7"] = entry.vmcs["kGuestDr7"]
    /\ vmcs["kGuestRip"] = EntryRip

----------------------------------------------------------------------------
(* VMX instructions executed by the guest *)

EntryIsVmxInstruction == EntryReason \in VmxInstructionReasons

\* C32: an exit caused by VMCLEAR, VMLAUNCH, VMPTRLD, VMPTRST, VMREAD,
\* VMRESUME, VMWRITE, VMXOFF, VMXON, INVEPT or INVVPID returns continue
\* with CF = 1 and PF, AF, ZF, SF, OF = 0 in the guest RFLAGS of the VMCS
\* and every other flag bit as at the exit, with the guest RIP advanced by
\* the instruction length, and with no guest register, no guest memory, no
\* debug register and no other guest-state field of the VMCS changed.
C32_VmxInstructionFailsInvalid ==
    (Handled /\ EntryIsVmxInstruction)
    => /\ pc = "returned"
       /\ ctx.vm_continue
       /\ \A k \in 0..63 :
             Bit(vmcs["kGuestRflags"], k) =
                 IF k = 0 THEN 1
                 ELSE IF k \in StatusFlagBits THEN 0 ELSE Bit(EntryFlags, k)
       /\ vmcs["kGuestRip"] = Add64(EntryRip, EntryInstLen)
       /\ GuestRegistersUnchanged
       /\ hw.mem = entry.hw.mem
       /\ hw.dr = entry.hw.dr
       /\ GuestMemoryAccesses = {}
       /\ \A f \in GuestStateFields \ {"kGuestRflags", "kGuestRip"} :
             vmcs[f] = entry.vmcs[f]

\* a VMXON exit taken with ZF, SF, OF and DF set has returned with CF set,
\* ZF clear and DF kept
C32_Witness ==
    /\ pc = "returned"
    /\ EntryReason = VmxExitReason.kVmon
    /\ EntryFlags = BusyFlags
    /\ vmcs["kGuestRflags"] = Nat64(1539)
    /\ vmcs["kGuestRip"] = Add64(EntryRip, EntryInstLen)

----------------------------------------------------------------------------
(* The VM-exit history *)

\* How many processors are supported for recording
kVmmpNumberOfProcessors == 2

\* the records a ring holds in the model; kVmmpNumberOfRecords is 100 in
\* the source and the ring is handled the same way for every length
MaxRecords == 2

kVmmpNumberOfRecords == MaxRecords

\* the processor numbers of a system with one processor more than the
\* arrays are declared for
RecordProcessors == 0..kVmmpNumberOfProcessors

\* the processors that have an index and a ring
RecordSlots == 0..(kVmmpNumberOfProcessors - 1)

\* VmExitHistory as zero-initialised static storage holds it
ZeroRecord ==
    [gp_regs |-> [r \in RegisterSet |-> Zero64], ip |-> Zero64,
     exit_reason |-> Zero64, exit_qualification |-> Zero64,
     instruction_info |-> Zero64]

\* a record with bytes overwritten from outside the recording of its ring
DamagedRecord == [ZeroRecord EXCEPT !.ip = JunkValue]

\* the VmExitHistory of the exit the machine m is handling
VmExitHistory(m) ==
    [gp_regs |-> m.gp_regs, ip |-> m.ctx.ip,
     exit_reason |-> Low32(UtilVmRead(m, "kVmExitReason")),
     exit_qualification |-> UtilVmRead(m, "kExitQualification"),
     instruction_info |-> UtilVmRead(m, "kVmxInstructionInfo")]

\* the statics with recording compiled in or out; recent is not in the
\* program: the exits each processor took, newest last, at most
\* kVmmpNumberOfRecords of them
InitHistory(enabled) ==
    [enabled |-> enabled,
     index |-> [s \in RecordSlots |-> 0],
     ring |-> [s \in RecordSlots |-> [i \in 0..(kVmmpNumberOfRecords - 1) |-> ZeroRecord]],
     recent |-> [p \in RecordProcessors |-> <<>>],
     stray |-> FALSE]

\* the newest kVmmpNumberOfRecords elements of a sequence
Newest(s) ==
    IF Len(s) <= kVmmpNumberOfRecords THEN s
    ELSE SubSeq(s, Len(s) - kVmmpNumberOfRecords + 1, Len(s))

\* the index left where it is after the store
VmmpRecordVmExit_NoStep(h, m) ==
    [h EXCEPT !.ring[m.hw.processor][h.index[m.hw.processor]] = VmExitHistory(m)]

\* the block under if (kVmmpEnableRecordVmExit), for a processor number
\* inside the arrays
VmmpRecordVmExit(h, m) ==
    LET processor == m.hw.processor
        index == h.index[processor]
    IN  [h EXCEPT !.ring[processor][index] = VmExitHistory(m),
                  !.index[processor] =
                      IF index + 1 = kVmmpNumberOfRecords THEN 0 ELSE index + 1]

\* the same block for a processor number outside the arrays: the index is
\* read and incremented past the end of g_vmmp_next_history_index and the
\* record is stored past the end of g_vmmp_vm_exit_history. What happens is
\* undefined: the stores land in memory that belongs to something else, or
\* the increment lands in the storage that follows the index array, the
\* first record of the history, or the store faults in VMX root mode.
VmmpRecordOutOfBounds(h, m) ==
    {[h |-> [h EXCEPT !.stray = TRUE], m |-> m],
     [h |-> [h EXCEPT !.ring[0][0] = DamagedRecord], m |-> m],
     [h |-> h, m |-> BugCheck(m, "PAGE_FAULT_IN_NONPAGED_AREA",
                              Zero64, Zero64, Zero64)]}

\* the exit noted in the ghost of the processor
Noted(h, m) ==
    [h EXCEPT !.recent[m.hw.processor] = Newest(Append(@, VmExitHistory(m)))]

\* what the recording block of VmmpHandleVmExit can leave: the statics and
\* the machine
VmmpRecordOutcomes(h, m) ==
    IF ~h.enabled THEN {[h |-> h, m |-> m]}
    ELSE IF m.hw.processor \in RecordSlots
    THEN {[h |-> VmmpRecordVmExit(Noted(h, m), m), m |-> m]}
    ELSE VmmpRecordOutOfBounds(Noted(h, m), m)

\* VmmVmExitHandler of a build with its recording block
VmmVmExitHandlerRecording(h, m) ==
    {[h |-> o.h,
      m |-> IF Halted(o.m) THEN o.m
            ELSE VmmpReturnUnlessHalted(VmmpHandleVmExit(o.m))] :
        o \in VmmpRecordOutcomes(h, VmmpCaptureGuestContext(m))}

InitRecord ==
    /\ InitWith(TypicalFixed)
    /\ cpus = [p \in RecordProcessors |-> BootedProcessor(p)]
    /\ tlb = {}
    /\ call = NoCall
    /\ \E enabled \in BOOLEAN : history = InitHistory(enabled)
    /\ driver = NoDriver

\* the exits the processors take: CPUID of leaf 0 and INVLPG of an address
RecordScenarios ==
    {Base(VmxExitReason.kCpuid, Zero64, Zero64, BaseRegs, NoFields),
     Base(VmxExitReason.kInvlpg, GuestBuffer, Zero64, BaseRegs, NoFields)}

\* a bug check on any processor stops the system
SystemRuns == \A p \in DOMAIN cpus : cpus[p].pc # "halted"

\* the guest of processor p exits, for the first time or after VMRESUME
RecordExit(p) ==
    /\ SystemRuns
    /\ \/ cpus[p].pc = "guest"
       \/ cpus[p].pc = "returned" /\ cpus[p].m.ctx.vm_continue
    /\ \E b \in RecordScenarios :
         \E v \in {ExitVmcs(cpus[p].m.vmcs, b, PlainFlags, 0, MaxInstLen,
                            U64(65535, 63488, 4660, 22136))} :
           cpus' = [cpus EXCEPT ![p] =
                      [pc |-> "exit",
                       m |-> [cpus[p].m EXCEPT !.gp_regs = b.regs, !.vmcs = v,
                                               !.hw = ExitHw(@, 0),
                                               !.ctx = NoContext, !.log = <<>>],
                       entry |-> [gp_regs |-> b.regs, vmcs |-> v,
                                  hw |-> ExitHw(cpus[p].m.hw, 0)]]]
    /\ UNCHANGED <<pc, gp_regs, vmcs, hw, ctx, stop, entry, prev, log, tlb, call,
                   history, driver>>

\* VmmVmExitHandler runs on processor p
RecordVmExitHandler(p) ==
    /\ SystemRuns
    /\ cpus[p].pc = "exit"
    /\ \E o \in VmmVmExitHandlerRecording(history, cpus[p].m) :
           /\ cpus' = [cpus EXCEPT ![p].m = o.m,
                                   ![p].pc = IF Halted(o.m) THEN "halted" ELSE "returned"]
           /\ history' = o.h
    /\ UNCHANGED <<pc, gp_regs, vmcs, hw, ctx, stop, entry, prev, log, tlb, call,
                   driver>>

NextRecord == \E p \in RecordProcessors : RecordExit(p) \/ RecordVmExitHandler(p)

SpecRecord == InitRecord /\ [][NextRecord]_vars

\* the exit processor p is about to handle, as the handler captures it
PendingRecord(p) == VmExitHistory(VmmpCaptureGuestContext(cpus[p].m))

\* VmmVmExitHandler runs on processor p in this step
RecordHandles(p) == cpus[p].pc = "exit" /\ cpus'[p].pc # "exit"

\* every index is inside its ring
IndexInRange ==
    \A s \in DOMAIN history.index :
        history.index[s] \in 0..(kVmmpNumberOfRecords - 1)

\* the ring of processor s holds its newest exits, the newest just before
\* the index
RingHoldsNewest(s) ==
    \A k \in 1..Len(history.recent[s]) :
        history.ring[s][(history.index[s] + kVmmpNumberOfRecords - k)
                            % kVmmpNumberOfRecords]
            = history.recent[s][Len(history.recent[s]) - k + 1]

\* the step stores the pending record of p at the next index of the ring of
\* p, steps that index and touches nothing else of the statics
RecordsInOwnRing(p) ==
    /\ p \in DOMAIN history.index
    /\ history'.ring[p] =
           [history.ring[p] EXCEPT ![history.index[p]] = PendingRecord(p)]
    /\ history'.index[p] = (history.index[p] + 1) % kVmmpNumberOfRecords
    /\ \A s \in DOMAIN history.index \ {p} :
           /\ history'.ring[s] = history.ring[s]
           /\ history'.index[s] = history.index[s]
    /\ history'.stray = history.stray

\* C33: with recording enabled, every exit on a processor stores exactly one
\* record in the ring of that processor at its next index and steps the
\* index modulo the ring length; the index stays inside the ring, the ring
\* holds the newest exits of its processor and no other ring or index is
\* touched, whatever number the processor has
C33_RecordsOnePerExitInOwnRing ==
    /\ [](history.enabled =>
            /\ IndexInRange
            /\ \A s \in DOMAIN history.index : RingHoldsNewest(s))
    /\ [][history.enabled =>
            \A p \in DOMAIN cpus : RecordHandles(p) => RecordsInOwnRing(p)]_vars

\* a processor whose number is outside the arrays has handled an exit with
\* recording enabled
C33_Witness ==
    /\ history.enabled
    /\ \E p \in DOMAIN cpus :
           /\ p \notin DOMAIN history.index
           /\ cpus[p].pc \in {"returned", "halted"}

\* the same for the processors the arrays are declared for, the others in
\* their guests
RecordsInsideArrays ==
    /\ [](history.enabled /\ ~history.stray /\ history.ring[0][0] # DamagedRecord
            /\ SystemRuns =>
            /\ IndexInRange
            /\ \A s \in DOMAIN history.index : RingHoldsNewest(s))
    /\ [][history.enabled =>
            \A p \in DOMAIN cpus \cap DOMAIN history.index :
                RecordHandles(p) => RecordsInOwnRing(p)]_vars

\* the step leaves on processor p what VmmVmExitHandler leaves in a build
\* without the recording block
EndsAsWithoutRecording(p) == cpus'[p].m = VmmVmExitHandlerBody(cpus[p].m)

\* C34: recording has no influence on the handling of an exit: with or
\* without it every exit ends with the same registers, VMCS fields, injected
\* event and resume-or-stop decision
C34_RecordingLeavesDispatchAlone ==
    [][\A p \in DOMAIN cpus : RecordHandles(p) => EndsAsWithoutRecording(p)]_vars

\* with recording enabled a processor has stopped in the handler
C34_Witness ==
    /\ history.enabled
    /\ \E p \in DOMAIN cpus : cpus[p].pc = "halted"

\* the same for the processors the arrays are declared for
DispatchAloneInsideArrays ==
    [][\A p \in DOMAIN cpus \cap DOMAIN history.index :
           RecordHandles(p) => EndsAsWithoutRecording(p)]_vars

----------------------------------------------------------------------------
(* MOV from a control or debug register *)

\* what the guest finds in a register once it runs again: VM entry loads
\* RSP from the guest-state area of the VMCS, the other registers come back
\* from the register file the handler worked on
ResumedRegister(r) == IF r = "sp" THEN vmcs["kGuestRsp"] ELSE gp_regs[r]

EntryIsMoveFromCr(control_register) ==
    /\ EntryIsCrAccess
    /\ Bits(EntryQualification, 4, 2) = 1
    /\ Bits(EntryQualification, 0, 4) = control_register

\* a MOV from DRn that the handler carries out: CPL 0, no alias fault, no
\* general detect
EntryIsMoveFromDr ==
    /\ EntryIsDrAccess
    /\ EntryDrMoveFrom
    /\ EntryCpl = 0
    /\ ~EntryIsDisabledAlias
    /\ ~EntryDr7Gd

\* the destination of the move
EntryDestination == VmmpSelectRegister(Bits(EntryQualification, 8, 4))

\* the value the handler reads for the move
EntryValueRead ==
    IF EntryIsMoveFromCr(3) THEN entry.vmcs["kGuestCr3"]
    ELSE IF EntryIsMoveFromCr(8) THEN entry.hw.cr8
    ELSE IF AliasedDebugRegister(EntryDebugRegister) = 7 THEN entry.vmcs["kGuestDr7"]
    ELSE entry.hw.dr[AliasedDebugRegister(EntryDebugRegister)]

EntryIsMoveFrom ==
    EntryIsMoveFromCr(3) \/ EntryIsMoveFromCr(8) \/ EntryIsMoveFromDr

\* C35: after a MOV from CR3, CR8 or DRn the guest finds the value the
\* handler read in the destination register, whichever register it is, RSP
\* included
C35_MoveFromReachesDestination ==
    pc = "returned" /\ EntryIsMoveFrom =>
        ResumedRegister(EntryDestination) = EntryValueRead

\* a MOV from CR3 to RSP has returned: the slot of RSP holds CR3 and the
\* guest RSP of the VMCS is as it was
C35_Witness ==
    /\ pc = "returned"
    /\ EntryIsMoveFromCr(3)
    /\ EntryDestination = "sp"
    /\ gp_regs["sp"] = entry.vmcs["kGuestCr3"]
    /\ vmcs["kGuestRsp"] = entry.vmcs["kGuestRsp"]
    /\ vmcs["kGuestRsp"] # entry.vmcs["kGuestCr3"]
    /\ vmcs["kGuestRip"] = Add64(EntryRip, EntryInstLen)

\* the same for the destinations other than RSP
MoveFromReachesOtherRegisters ==
    pc = "returned" /\ EntryIsMoveFrom /\ EntryDestination # "sp" =>
        ResumedRegister(EntryDestination) = EntryValueRead

\* a MOV from DR6 to RSP and a MOV from CR8 to RBX have returned
MoveFromCases ==
    /\ pc = "returned"
    /\ \/ EntryIsMoveFromDr /\ EntryDestination = "sp" /\ EntryDebugRegister = 6
       \/ EntryIsMoveFromCr(8) /\ EntryDestination = "bx"
    /\ gp_regs[EntryDestination] = EntryValueRead

----------------------------------------------------------------------------
(* Progress of VMCALL *)

\* #UD is pending for the next VM entry
UdInjected ==
    vmcs["kVmEntryIntrInfoField"] =
        InterruptionInformation(InterruptionType.kHardwareException,
            InterruptionVector.kInvalidOpcodeException, FALSE)

\* the guest RIP is past the VMCALL and CF, PF, AF, ZF, SF and OF are clear
AdvancedWithSuccess ==
    /\ vmcs["kGuestRip"] = Add64(EntryRip, EntryInstLen)
    /\ vmcs["kGuestRflags"] = StatusFlags(EntryFlags, 0)

\* the exit left the guest RIP, the event to inject and the verdict alone
NothingDone ==
    /\ vmcs["kGuestRip"] = EntryRip
    /\ vmcs["kVmEntryIntrInfoField"] = entry.vmcs["kVmEntryIntrInfoField"]
    /\ vmcs["kVmEntryExceptionErrorCode"] = entry.vmcs["kVmEntryExceptionErrorCode"]
    /\ vmcs["kVmEntryInstructionLen"] = entry.vmcs["kVmEntryInstructionLen"]
    /\ ctx.vm_continue

EntryIsInRangeVmcall ==
    /\ EntryIsVmcall
    /\ Le64(HypercallNumber.kMinimumHypercallNumber, EntryHypercallNumber)
    /\ Le64(EntryHypercallNumber, HypercallNumber.kMaximumHypercallNumber)

C36_WitnessOutOfRange ==
    /\ pc = "returned"
    /\ EntryIsVmcall
    /\ ~EntryIsInRangeVmcall
    /\ UdInjected
    /\ vmcs["kGuestRip"] = EntryRip
    /\ ctx.vm_continue

----------------------------------------------------------------------------
(* VMCALL from user mode *)

\* the stores the handler made to memory
MemoryWrites == Performed({"memwrite"})

\* C37: a VMCALL at a guest CPL other than 0 makes the host store nothing
\* through the address in RDX, whatever the hypercall number
C37_UserVmcallStoresNothing ==
    pc = "returned" /\ EntryIsVmcall /\ EntryCpl # 0 =>
        /\ MemoryWrites = {}
        /\ hw.mem = entry.hw.mem

\* kGetSharedProcessorData at CPL 3 has returned with the address of the
\* shared data stored at the address RDX held
C37_Witness ==
    /\ pc = "returned"
    /\ EntryIsVmcall
    /\ EntryCpl = 3
    /\ EntryHypercallNumber = HypercallNumber.kGetSharedProcessorData
    /\ EntryContext = GuestBuffer
    /\ hw.mem[GuestBuffer] = HostAddress.shared_data
    /\ entry.hw.mem[GuestBuffer] # HostAddress.shared_data
    /\ MemoryWrites # {}

\* the same for the numbers other than kGetSharedProcessorData
UserVmcallStoresNothingElse ==
    /\ pc = "returned" /\ EntryIsVmcall /\ EntryCpl # 0
    /\ EntryHypercallNumber # HypercallNumber.kGetSharedProcessorData
    => MemoryWrites = {} /\ hw.mem = entry.hw.mem

----------------------------------------------------------------------------
(* Exceptions and NMIs *)

EntryIsException == EntryReason = VmxExitReason.kExceptionOrNmi

\* the type and the vector of the event that caused the exit
EntryInterruptionType == Bits(entry.vmcs["kVmExitIntrInfo"], 8, 3)
EntryVector == Bits(entry.vmcs["kVmExitIntrInfo"], 0, 8)

EntryIsHardwareFault(vector) ==
    /\ EntryIsException
    /\ EntryInterruptionType = InterruptionType.kHardwareException
    /\ EntryVector = vector

EntryIsBreakpoint ==
    /\ EntryIsException
    /\ EntryInterruptionType = InterruptionType.kSoftwareException
    /\ EntryVector = InterruptionVector.kBreakpointException

\* the exit returned continue with the guest RIP where it was and the event
\* of the exit pending again
Reinjected(error_code_valid) ==
    /\ pc = "returned"
    /\ ctx.vm_continue
    /\ vmcs["kGuestRip"] = EntryRip
    /\ VmWrites("kGuestRip") = {}
    /\ vmcs["kVmEntryIntrInfoField"] =
           InterruptionInformation(EntryInterruptionType, EntryVector,
                                   error_code_valid)

\* C38: an exception or NMI exit re-injects a hardware #PF or #GP with the
\* type, vector and error code of the exit, #PF with CR2 set from the exit
\* qualification, and a software #BP without error code and with the
\* instruction length of the exit; the guest RIP stays and the verdict is
\* continue; every other type or vector stops the system
C38_ExceptionReinjectedOrFatal ==
    (Handled /\ EntryIsException) =>
        IF \/ EntryIsHardwareFault(InterruptionVector.kPageFaultException)
           \/ EntryIsHardwareFault(InterruptionVector.kGeneralProtectionException)
        THEN /\ Reinjected(TRUE)
             /\ vmcs["kVmEntryExceptionErrorCode"] =
                    Low32(entry.vmcs["kVmExitIntrErrorCode"])
             /\ IF EntryVector = InterruptionVector.kPageFaultException
                THEN hw.cr2 = EntryQualification
                ELSE hw.cr2 = entry.hw.cr2
        ELSE IF EntryIsBreakpoint
        THEN /\ Reinjected(FALSE)
             /\ VmWrites("kVmEntryExceptionErrorCode") = {}
             /\ vmcs["kVmEntryInstructionLen"] = EntryInstLen
        ELSE /\ pc = "halted"
             /\ stop.code = "kUnspecified"

\* a page fault has returned with #PF pending with its error code and CR2
\* holding the faulting address
C38_Witness ==
    /\ pc = "returned"
    /\ EntryIsHardwareFault(InterruptionVector.kPageFaultException)
    /\ vmcs["kVmEntryIntrInfoField"] = U64(0, 0, 32768, 2830)
    /\ vmcs["kVmEntryExceptionErrorCode"] = Nat64(2)
    /\ hw.cr2 = GuestBuffer
    /\ entry.hw.cr2 # GuestBuffer

\* a breakpoint has returned with #BP pending and its instruction length
C38_WitnessBreakpoint ==
    /\ pc = "returned"
    /\ EntryIsBreakpoint
    /\ vmcs["kVmEntryIntrInfoField"] = U64(0, 0, 32768, 1539)
    /\ vmcs["kVmEntryInstructionLen"] = EntryInstLen
    /\ vmcs["kVmEntryInstructionLen"] # entry.vmcs["kVmEntryInstructionLen"]

\* an NMI has stopped the system
C38_WitnessFatal ==
    /\ pc = "halted"
    /\ EntryIsException
    /\ EntryInterruptionType = 2
    /\ stop.code = "kUnspecified"

----------------------------------------------------------------------------
(* The count of REP INS and REP OUTS *)

EntryIsRepStringIo ==
    /\ EntryIsIo
    /\ Bit(EntryQualification, 4) = 1
    /\ Bit(EntryQualification, 5) = 1

\* the string transfers the handler made
StringTransfers == Performed({"ins", "outs"})

\* C39: a REP INS or REP OUTS exit transfers as many elements as the RCX
\* of the guest says, the count its index register is moved by, for every
\* value of RCX, those of 2^32 and above included, and leaves RCX at 0
C39_RepCountIsWhatMovesTheIndex ==
    pc = "returned" /\ EntryIsRepStringIo =>
        /\ StringTransfers # {}
        /\ \A i \in StringTransfers : log[i].w = entry.gp_regs["cx"]
        /\ gp_regs["cx"] = Zero64

\* REP INSB with RCX = 0x1_0000_0002 and DF clear has returned: two bytes
\* were transferred, RDI has moved up by 0x1_0000_0002 and RCX is 0
C39_Witness ==
    /\ pc = "returned"
    /\ EntryIsRepStringIo
    /\ Bits(EntryQualification, 0, 4) = 8
    /\ ~Flag(EntryFlags, "df")
    /\ entry.gp_regs["cx"] = U64(0, 1, 0, 2)
    /\ \E i \in StringTransfers : log[i].op = "ins" /\ log[i].w = Nat64(2)
    /\ gp_regs["di"] = Add64(entry.gp_regs["di"], U64(0, 1, 0, 2))
    /\ gp_regs["cx"] = Zero64

\* the same for the values of RCX below 2^32
RepCountBelow32Bits ==
    pc = "returned" /\ EntryIsRepStringIo /\ High32(entry.gp_regs["cx"]) = Zero64 =>
        /\ StringTransfers # {}
        /\ \A i \in StringTransfers : log[i].w = entry.gp_regs["cx"]
        /\ gp_regs["cx"] = Zero64

----------------------------------------------------------------------------
(* Loading and unloading the driver *)

\* NT_SUCCESS of the statuses the initialisations return
NT_SUCCESS(status) == status = "STATUS_SUCCESS"

\* the statuses a failing initialisation returns
FailureStatuses == {"STATUS_UNSUCCESSFUL", "STATUS_INSUFFICIENT_RESOURCES"}

\* one row per call of DriverEntry that can end it, in program order: the
\* call, what it initialises, the statuses it can return, the status
\* DriverEntry returns when it fails ("" for the status of the call) and
\* the terminations DriverEntry calls before that return
DriverEntrySteps ==
    <<[call |-> "InitSystemVar", subsystem |-> "",
       returns |-> {"STATUS_SUCCESS"} \cup FailureStatuses,
       failure |-> "STATUS_UNSUCCESSFUL", undo |-> <<>>],
      [call |-> "_CRT_INIT", subsystem |-> "CRT",
       returns |-> {"STATUS_SUCCESS"}, failure |-> "", undo |-> <<>>],
      [call |-> "HyperInitDeviceAll", subsystem |-> "Device",
       returns |-> {"STATUS_SUCCESS"} \cup FailureStatuses,
       failure |-> "STATUS_UNSUCCESSFUL", undo |-> <<>>],
      [call |-> "LogInitialization", subsystem |-> "Log",
       returns |-> {"STATUS_SUCCESS", "STATUS_REINITIALIZATION_NEEDED"}
                       \cup FailureStatuses,
       failure |-> "", undo |-> <<>>],
      [call |-> "DriverpIsSuppoetedOS", subsystem |-> "",
       returns |-> {"STATUS_SUCCESS", "STATUS_UNSUCCESSFUL"},
       failure |-> "STATUS_CANCELLED", undo |-> <<"LogTermination">>],
      [call |-> "PerfInitialization", subsystem |-> "Perf",
       returns |-> {"STATUS_SUCCESS"} \cup FailureStatuses, failure |-> "",
       undo |-> <<"_CRT_UNLOAD", "LogTermination">>],
      [call |-> "UtilInitialization", subsystem |-> "Util",
       returns |-> {"STATUS_SUCCESS"} \cup FailureStatuses, failure |-> "",
       undo |-> <<"PerfTermination", "_CRT_UNLOAD", "LogTermination">>],
      [call |-> "PowerCallbackInitialization", subsystem |-> "PowerCallback",
       returns |-> {"STATUS_SUCCESS"} \cup FailureStatuses, failure |-> "",
       undo |-> <<"UtilTermination", "PerfTermination", "_CRT_UNLOAD",
                  "LogTermination">>],
      [call |-> "HotplugCallbackInitialization", subsystem |-> "HotplugCallback",
       returns |-> {"STATUS_SUCCESS"} \cup FailureStatuses, failure |-> "",
       undo |-> <<"PowerCallbackTermination", "UtilTermination",
                  "PerfTermination", "_CRT_UNLOAD", "LogTermination">>],
      [call |-> "VmInitialization", subsystem |-> "Vm",
       returns |-> {"STATUS_SUCCESS"} \cup FailureStatuses, failure |-> "",
       undo |-> <<"HotplugCallbackTermination", "PowerCallbackTermination",
                  "UtilTermination", "PerfTermination", "_CRT_UNLOAD",
                  "LogTermination">>]>>

\* the terminations of DriverpDriverUnload, in program order
DriverpDriverUnloadCalls ==
    <<"VmTermination", "HotplugCallbackTermination", "PowerCallbackTermination",
      "UtilTermination", "PerfTermination", "LogTermination",
      "HyperDestroyDeviceAll">>

\* what a termination call terminates
Terminates(termination) ==
    CASE termination = "VmTermination" -> "Vm"
      [] termination = "HotplugCallbackTermination" -> "HotplugCallback"
      [] termination = "PowerCallbackTermination" -> "PowerCallback"
      [] termination = "UtilTermination" -> "Util"
      [] termination = "PerfTermination" -> "Perf"
      [] termination = "LogTermination" -> "Log"
      [] termination = "_CRT_UNLOAD" -> "CRT"
      [] termination = "HyperDestroyDeviceAll" -> "Device"

\* a sequence without the element x
Without(s, x) == SelectSeq(s, LAMBDA e : e # x)

\* DriverEntry is about to run: nothing is initialised
InitDriver ==
    /\ InitWith(TypicalFixed)
    /\ cpus = <<>> /\ tlb = {} /\ call = NoCall /\ history = NoHistory
    /\ \E release \in BOOLEAN :
         driver = [pc |-> "DriverEntry", next |-> 1,
                   status |-> "STATUS_UNSUCCESSFUL",
                   need_reinitialization |-> FALSE,
                   kLogLevel |-> IF release THEN "kLogPutLevelInfo"
                                 ELSE "kLogPutLevelDebug",
                   live |-> <<>>, initialised |-> <<>>, terminated |-> <<>>,
                   registered |-> FALSE, undo |-> <<>>]

\* the step of DriverEntry after a call that returned status
DriverEntryAfter(d, step, status) ==
    IF step.call = "LogInitialization" /\ status = "STATUS_REINITIALIZATION_NEEDED"
    THEN [d EXCEPT !.next = @ + 1, !.status = status,
                   !.need_reinitialization = TRUE,
                   !.live = Append(@, step.subsystem),
                   !.initialised = Append(@, step.subsystem)]
    ELSE IF ~NT_SUCCESS(status)
    THEN [d EXCEPT !.pc = "failing",
                   !.status = IF step.failure = "" THEN status ELSE step.failure,
                   !.undo = step.undo]
    ELSE [d EXCEPT !.pc = IF d.next = Len(DriverEntrySteps) THEN "installed"
                          ELSE "DriverEntry",
                   !.next = @ + 1,
                   !.status = IF step.call = "DriverpIsSuppoetedOS" THEN @ ELSE status,
                   !.live = IF step.subsystem = "" THEN @
                            ELSE Append(@, step.subsystem),
                   !.initialised = IF step.subsystem = "" THEN @
                                   ELSE Append(@, step.subsystem)]

\* DriverEntry makes its next call, which returns one of its statuses
DriverEntryCall ==
    /\ driver.pc = "DriverEntry"
    /\ \E status \in DriverEntrySteps[driver.next].returns :
         driver' = DriverEntryAfter(driver, DriverEntrySteps[driver.next], status)
    /\ UNCHANGED <<pc, gp_regs, vmcs, hw, ctx, stop, entry, prev, log, cpus, tlb,
                   call, history>>

\* the next termination of a failing DriverEntry or of DriverpDriverUnload
DriverTerminate ==
    /\ driver.pc \in {"failing", "unloading"}
    /\ driver.undo # <<>>
    /\ driver' = [driver EXCEPT !.undo = Tail(@),
                                !.live = Without(@, Terminates(Head(driver.undo))),
                                !.terminated = Append(@, Terminates(Head(driver.undo)))]
    /\ UNCHANGED <<pc, gp_regs, vmcs, hw, ctx, stop, entry, prev, log, cpus, tlb,
                   call, history>>

\* DriverEntry returns its status, after registering the log for
\* reinitialisation if that is needed and everything succeeded
DriverEntryReturn ==
    /\ \/ driver.pc = "failing" /\ driver.undo = <<>>
       \/ driver.pc = "installed"
    /\ driver' = [driver EXCEPT !.pc = "returned",
                                !.registered = driver.pc = "installed"
                                               /\ driver.need_reinitialization]
    /\ UNCHANGED <<pc, gp_regs, vmcs, hw, ctx, stop, entry, prev, log, cpus, tlb,
                   call, history>>

\* the system calls DriverpDriverUnload of a driver that loaded
DriverpDriverUnload ==
    /\ driver.pc = "returned"
    /\ NT_SUCCESS(driver.status)
    /\ driver' = [driver EXCEPT !.pc = "unloading", !.undo = DriverpDriverUnloadCalls]
    /\ UNCHANGED <<pc, gp_regs, vmcs, hw, ctx, stop, entry, prev, log, cpus, tlb,
                   call, history>>

\* DriverpDriverUnload returns
DriverpDriverUnloadReturn ==
    /\ driver.pc = "unloading"
    /\ driver.undo = <<>>
    /\ driver' = [driver EXCEPT !.pc = "unloaded"]
    /\ UNCHANGED <<pc, gp_regs, vmcs, hw, ctx, stop, entry, prev, log, cpus, tlb,
                   call, history>>

NextDriver ==
    \/ DriverEntryCall
    \/ DriverTerminate
    \/ DriverEntryReturn
    \/ DriverpDriverUnload
    \/ DriverpDriverUnloadReturn

SpecDriver == InitDriver /\ [][NextDriver]_vars

RECURSIVE Reverse(_)
Reverse(s) == IF s = <<>> THEN <<>> ELSE Append(Reverse(Tail(s)), Head(s))

\* DriverEntry has returned
DriverEntryReturned == driver.pc = "returned"

\* the subsystems whose initialisation and termination the driver pairs
Subsystems ==
    {"Device", "CRT", "Log", "Perf", "Util", "PowerCallback", "HotplugCallback"}

\* C40: when DriverEntry returns a failure, every subsystem it had
\* initialised (device objects, C runtime, log, performance, utility, power
\* callback, hot-plug callback) has been terminated, last initialised first;
\* when it returns success all of them and the virtualization are
\* initialised
C40_FailureUndoesInReverse ==
    DriverEntryReturned =>
        IF NT_SUCCESS(driver.status)
        THEN /\ \A s \in Subsystems \cup {"Vm"} :
                    \E i \in DOMAIN driver.live : driver.live[i] = s
             /\ driver.terminated = <<>>
        ELSE /\ driver.live = <<>>
             /\ driver.terminated = Reverse(driver.initialised)

\* VmInitialization has failed and DriverEntry has returned its status: the
\* C runtime was unloaded before the log was terminated and the device
\* objects are still there
C40_Witness ==
    /\ DriverEntryReturned
    /\ driver.status = "STATUS_INSUFFICIENT_RESOURCES"
    /\ driver.initialised = <<"CRT", "Device", "Log", "Perf", "Util",
                              "PowerCallback", "HotplugCallback">>
    /\ driver.terminated = <<"HotplugCallback", "PowerCallback", "Util", "Perf",
                             "CRT", "Log">>
    /\ driver.live = <<"Device">>

\* a successful DriverEntry leaves everything initialised
LoadedMeansInitialised ==
    DriverEntryReturned /\ NT_SUCCESS(driver.status) =>
        /\ driver.live = <<"CRT", "Device", "Log", "Perf", "Util",
                           "PowerCallback", "HotplugCallback", "Vm">>
        /\ driver.terminated = <<>>
        /\ driver.registered = driver.need_reinitialization

\* the driver has been unloaded after a successful load
Unloaded == driver.pc = "unloaded" /\ driver.live = <<"CRT">>

====
